---- MODULE Spec2Model ----
(***************************************************************************)
(* State-machine model of the wastewater / SARI dashboard (app.js).        *)
(*                                                                         *)
(* Conventions                                                             *)
(*   - a JS string is a sequence of one-character strings;                 *)
(*   - a JS Date is an integer: hours since 1970-01-01T00:00Z (every Date  *)
(*     the program builds is a whole number of hours);                     *)
(*   - the browser's time zone is the variable tz, a fixed offset in hours *)
(*     east of UTC (daylight saving is not modelled);                      *)
(*   - a JS object used as a map is a sequence of <<key, value>> pairs in  *)
(*     insertion order (its keys are never integer-like);                  *)
(*   - a nullable Date is <<>> (null) or <<t>>.                            *)
(***************************************************************************)
EXTENDS Integers, Sequences, FiniteSets, TLC

VARIABLES
    tz,                   \* time-zone offset of the browser, hours east of UTC
    kwInput,              \* the label parseKW is going to be called on
    kwString,             \* parseKW: the argument of the last call
    kwDate,               \* parseKW: the result of the last call (<<>> = null)
    kwLabel,              \* formatDateAsKW: the result of the last call
    fnInput,              \* a pure function about to be called: its name and argument
    fnResult,             \* <<>> or <<what that call returned>>
    fetchPc,              \* loadAllData: per source, position of its async callback
    requests,             \* fetchData: per source, the number of requests issued so far
    responses,            \* fetchData: per source, how its requests were answered, in order
    fetched,              \* loadAllData: per source, <<>> or <<payload fetchData returned>>
    results,              \* loadAllData: the local object `results`
    loadPc,               \* loadAllData: "idle", "running", "resolved" or "rejected"
    allData,              \* global allData
    allLocations,         \* global allLocations
    page,                 \* init: its position, the loading indicator, the error banner, the chart
    sariRawData,          \* global sariRawData
    sariFilteredData,     \* global sariFilteredData
    sariCall,             \* last call of an aggregation function: name, arguments, result
    sariUI,               \* the selects of the SARI section: bundesland, station
    sariChart,            \* the SARI section: loading, error, nodata or the chart traces
    sariDemographicsData, \* global sariDemographicsData
    sariDemographicsDates,\* global sariDemographicsDates
    sariHeatmapKWs,       \* global sariHeatmapKWs
    demoUI,               \* controls of the demographics section
    demoChart,            \* what createSariDemographicsChart last produced
    heatUI,               \* controls of the heatmap section
    heatChart,            \* what createSariHeatmap last produced
    heatTimer             \* the interval timer of the heatmap, and how often it ran initSariHeatmapUI

vars == <<tz, kwInput, kwString, kwDate, kwLabel, fnInput, fnResult,
          fetchPc, requests, responses, fetched, results, loadPc, allData, allLocations, page,
          sariRawData, sariFilteredData, sariCall,
          sariUI, sariChart,
          sariDemographicsData, sariDemographicsDates, sariHeatmapKWs,
          demoUI, demoChart, heatUI, heatChart, heatTimer>>

kwVars   == <<kwInput, kwString, kwDate, kwLabel>>
callVars == <<fnInput, fnResult>>
loadVars == <<fetchPc, requests, responses, fetched, results, loadPc, allData, allLocations,
              page>>
sariVars == <<sariRawData, sariFilteredData, sariCall, sariUI, sariChart>>
demoVars == <<sariDemographicsData, sariDemographicsDates, sariHeatmapKWs,
              demoUI, demoChart, heatUI, heatChart, heatTimer>>

(***************************************************************************)
(* Bounds                                                                  *)
(***************************************************************************)
MinYear == 2021
MaxYear == 2026
MaxSariRows == 2
MaxDemoRows == 2
MaxTraces == 2
MaxInits == 2

TimeZones == {-5, 0, 1}

(***************************************************************************)
(* Strings                                                                 *)
(***************************************************************************)
DigitChars == <<"0", "1", "2", "3", "4", "5", "6", "7", "8", "9">>

IsDigit(c) == \E i \in 1..10 : DigitChars[i] = c

DigitVal(c) == (CHOOSE i \in 1..10 : DigitChars[i] = c) - 1

IsSpace(c) == c \in {" ", "\t"}

RECURSIVE NumToStr(_)
NumToStr(n) ==
    IF n < 0 THEN <<"-">> \o NumToStr(-n)
    ELSE IF n < 10 THEN <<DigitChars[n + 1]>>
    ELSE NumToStr(n \div 10) \o <<DigitChars[(n % 10) + 1]>>

RECURSIVE padStart(_, _, _)
padStart(s, len, c) == IF Len(s) >= len THEN s ELSE padStart(<<c>> \o s, len, c)

\* the least element of a non-empty set of integers
Least(S) == CHOOSE x \in S : \A y \in S : x <= y

\* first index >= i of s whose character is not a digit (Len(s)+1 if none)
DigitRunEnd(s, i) ==
    IF i > Len(s) THEN i
    ELSE Least({j \in i..(Len(s) + 1) : j = Len(s) + 1 \/ ~IsDigit(s[j])})

\* first index >= i of s whose character is not white space (Len(s)+1 if none)
SpaceRunEnd(s, i) ==
    IF i > Len(s) THEN i
    ELSE Least({j \in i..(Len(s) + 1) : j = Len(s) + 1 \/ ~IsSpace(s[j])})

\* value of the decimal digits s[i..j-1]
RECURSIVE DigitsValue(_, _, _)
DigitsValue(s, i, j) ==
    IF j <= i THEN 0 ELSE DigitsValue(s, i, j - 1) * 10 + DigitVal(s[j - 1])

\* lexicographic order of two strings of digits and '-' (code-unit order)
CharCode(c) == IF c = "-" THEN 0 ELSE 1 + DigitVal(c)

RECURSIVE StrLess(_, _)
StrLess(a, b) ==
    IF b = <<>> THEN FALSE
    ELSE IF a = <<>> THEN TRUE
    ELSE IF CharCode(Head(a)) # CharCode(Head(b))
         THEN CharCode(Head(a)) < CharCode(Head(b))
    ELSE StrLess(Tail(a), Tail(b))

(***************************************************************************)
(* The platform's Date                                                     *)
(***************************************************************************)
\* day number (days since 1970-01-01) of the proleptic Gregorian date y-m-d
DaysFromCivil(y, m, d) ==
    LET yy  == IF m <= 2 THEN y - 1 ELSE y
        era == yy \div 400
        yoe == yy - era * 400
        mp  == IF m > 2 THEN m - 3 ELSE m + 9
        doy == (153 * mp + 2) \div 5 + d - 1
        doe == yoe * 365 + yoe \div 4 - yoe \div 100 + doy
    IN  era * 146097 + doe - 719468

\* <<year, month, day>> of a day number
CivilFromDays(z) ==
    LET zz  == z + 719468
        era == zz \div 146097
        doe == zz - era * 146097
        yoe == (doe - doe \div 1460 + doe \div 36524 - doe \div 146096) \div 365
        doy == doe - (365 * yoe + yoe \div 4 - yoe \div 100)
        mp  == (5 * doy + 2) \div 153
        d   == doy - (153 * mp + 2) \div 5 + 1
        m   == IF mp < 10 THEN mp + 3 ELSE mp - 9
        y   == yoe + era * 400
    IN  <<IF m <= 2 THEN y + 1 ELSE y, m, d>>

\* new Date(year, monthIndex 0, day): local midnight; years 0..99 mean 1900+year
NewLocalDate(year, day, zone) ==
    LET y == IF year >= 0 /\ year <= 99 THEN 1900 + year ELSE year
    IN  DaysFromCivil(y, 1, day) * 24 - zone

\* the local calendar day (day number) of a Date
LocalDay(t, zone) == (t + zone) \div 24

\* Date.prototype.getDay: 0 = Sunday .. 6 = Saturday (1970-01-01 was a Thursday)
getDay(t, zone) == (LocalDay(t, zone) + 4) % 7

\* Date.prototype.getFullYear
getFullYear(t, zone) == CivilFromDays(LocalDay(t, zone))[1]

\* d.setDate(d.getDate() + delta): moves the local calendar day, keeps the time
AddDays(t, delta) == t + 24 * delta

\* date.toISOString().split('T')[0]: the UTC calendar date as "YYYY-MM-DD"
ISODateString(t) ==
    LET c == CivilFromDays(t \div 24)
    IN  padStart(NumToStr(c[1]), 4, "0") \o <<"-">> \o
        padStart(NumToStr(c[2]), 2, "0") \o <<"-">> \o
        padStart(NumToStr(c[3]), 2, "0")

\* new Date("YYYY-MM-DD"): a date-only ISO string is midnight UTC
DateFromISO(s) ==
    DaysFromCivil(DigitsValue(s, 1, 5), DigitsValue(s, 6, 8), DigitsValue(s, 9, 11)) * 24

(***************************************************************************)
(* Calendar-week parser                                                    *)
(***************************************************************************)
\* the result of kwString.match(/(\d+)\.\s*KW\s*(\d+)/) tried at index i:
\* <<>> when it fails there, else <<week digits value, year digits value>>
KWMatchAt(s, i) ==
    LET j == DigitRunEnd(s, i)
        k == SpaceRunEnd(s, j + 1)
        l == SpaceRunEnd(s, k + 2)
        e == DigitRunEnd(s, l)
    IN  IF /\ j > i
           /\ j <= Len(s) /\ s[j] = "."
           /\ k + 1 <= Len(s) /\ s[k] = "K" /\ s[k + 1] = "W"
           /\ e > l
        THEN <<DigitsValue(s, i, j), DigitsValue(s, l, e)>>
        ELSE <<>>

\* the leftmost match, <<>> when there is none
KWMatch(s) ==
    LET starts == {i \in 1..Len(s) : KWMatchAt(s, i) # <<>>}
    IN  IF starts = {} THEN <<>> ELSE KWMatchAt(s, Least(starts))

\* mutant: getDay() is used as it is, Sunday stays 0
SundayAs7_Raw(dow) == dow

\* jan4.getDay() || 7
SundayAs7(dow) == IF dow = 0 THEN 7 ELSE dow

\* mutant: the week offset is never added, every week is week 1
MondayOfKW_NoWeekOffset(week, year, zone) ==
    LET jan4      == NewLocalDate(year, 4, zone)
        dayOfWeek == SundayAs7(getDay(jan4, zone))
    IN  AddDays(jan4, 1 - dayOfWeek)

\* the Monday of calendar week `week` of `year`
MondayOfKW(week, year, zone) ==
    LET jan4         == NewLocalDate(year, 4, zone)
        dayOfWeek    == SundayAs7(getDay(jan4, zone))
        mondayKW1    == AddDays(jan4, 1 - dayOfWeek)
        targetMonday == AddDays(mondayKW1, (week - 1) * 7)
    IN  targetMonday

\* if (match) { ... return targetMonday; } return null;
DateOfMatch(match, zone) ==
    IF match # <<>> THEN <<MondayOfKW(match[1], match[2], zone)>> ELSE <<>>

parseKW(s, zone) == DateOfMatch(KWMatch(s), zone)

\* Math.ceil(a / 7) for an integer a
CeilDiv7(a) == (a + 6) \div 7

formatDateAsKW(date, zone) ==
    LET startOfYear == NewLocalDate(getFullYear(date, zone), 1, zone)
        days        == (date - startOfYear) \div 24
        week        == CeilDiv7(days + getDay(startOfYear, zone) + 1)
    IN  NumToStr(week) \o <<".", " ", "K", "W", " ">> \o
        NumToStr(getFullYear(date, zone))

\* the label "<week>. KW <year>" as the data files write it
KWLabel(week, year) ==
    NumToStr(week) \o <<".", " ", "K", "W", " ">> \o NumToStr(year)

(***************************************************************************)
(* JS objects used as maps: sequences of <<key, value>> in insertion order *)
(***************************************************************************)
MapHas(m, k) == \E i \in 1..Len(m) : m[i][1] = k

MapIndex(m, k) == CHOOSE i \in 1..Len(m) : m[i][1] = k

MapGet(m, k) == m[MapIndex(m, k)][2]

\* m[k] = v: a new key is appended, an existing key keeps its position
MapPut(m, k, v) ==
    IF MapHas(m, k)
    THEN [i \in 1..Len(m) |-> IF m[i][1] = k THEN <<k, v>> ELSE m[i]]
    ELSE Append(m, <<k, v>>)

\* Object.keys(m), Object.values(m)
MapKeys(m) == [i \in 1..Len(m) |-> m[i][1]]

MapValues(m) == [i \in 1..Len(m) |-> m[i][2]]

KeySet(m) == {m[i][1] : i \in 1..Len(m)}

\* set.add(x) on a Set kept as the sequence of its elements in insertion order
SetAdd(q, x) == IF \E i \in 1..Len(q) : q[i] = x THEN q ELSE Append(q, x)

RECURSIVE SetAddAll(_, _)
SetAddAll(q, xs) == IF xs = <<>> THEN q ELSE SetAddAll(SetAdd(q, Head(xs)), Tail(xs))

\* String.prototype.includes
Includes(s, sub) ==
    \E i \in 1..(Len(s) - Len(sub) + 1) : SubSeq(s, i, i + Len(sub) - 1) = sub

(***************************************************************************)
(* Trace extractor and wastewater loader                                   *)
(***************************************************************************)
Quartil == <<"Q", "u", "a", "r", "t", "i", "l">>

\* a trace object of a payload; an absent type or mode is "undefined",
\* an absent name is the empty string, an absent axis has hasX / hasY FALSE
Trace(name, hasX, hasY, type, mode) ==
    [name |-> name, hasX |-> hasX, x |-> IF hasX THEN <<1, 2>> ELSE <<>>,
     hasY |-> hasY, y |-> IF hasY THEN <<Len(name), 7>> ELSE <<>>,
     type |-> type, mode |-> mode]

\* the condition of the if statement in extractAllTraces
IsLocationTrace(trace) ==
    /\ trace.name # <<>>
    /\ trace.hasX
    /\ trace.hasY
    /\ ~Includes(trace.name, Quartil)
    /\ trace.type # "bar"
    /\ trace.mode # "none"

RECURSIVE ExtractFrom(_, _)
ExtractFrom(data, traces) ==
    IF data = <<>> THEN traces
    ELSE ExtractFrom(Tail(data),
            IF IsLocationTrace(Head(data))
            THEN MapPut(traces, Head(data).name, [x |-> Head(data).x, y |-> Head(data).y])
            ELSE traces)

extractAllTraces(plotlyData) ==
    IF ~plotlyData.hasData THEN <<>> ELSE ExtractFrom(plotlyData.data, <<>>)

\* the names the second version of extractAllTraces compares with ('Oe'
\* stands for the O umlaut of the source)
Quartile1Name ==
    <<"1", ".", " ", "Q", "u", "a", "r", "t", "i", "l", " ",
      "O", "e", "s", "t", "e", "r", "r", "e", "i", "c", "h">>

Quartile3Name ==
    <<"3", ".", " ", "Q", "u", "a", "r", "t", "i", "l", " ",
      "O", "e", "s", "t", "e", "r", "r", "e", "i", "c", "h">>

\* one iteration of the loop of the second version: a trace without name, x
\* or y is skipped; the two quartile traces of Austria are kept apart; any
\* other trace that is not a bar and not of mode 'none' is a location trace
ExtractStep_v2(acc, trace) ==
    IF trace.name = <<>> \/ ~trace.hasX \/ ~trace.hasY THEN acc
    ELSE IF trace.name = Quartile1Name
         THEN [acc EXCEPT !.quartile1 = <<[x |-> trace.x, y |-> trace.y]>>]
    ELSE IF trace.name = Quartile3Name
         THEN [acc EXCEPT !.quartile3 = <<[x |-> trace.x, y |-> trace.y]>>]
    ELSE IF trace.type # "bar" /\ trace.mode # "none"
         THEN [acc EXCEPT !.traces = MapPut(@, trace.name, [x |-> trace.x, y |-> trace.y])]
    ELSE acc

RECURSIVE ExtractFrom_v2(_, _)
ExtractFrom_v2(data, acc) ==
    IF data = <<>> THEN acc ELSE ExtractFrom_v2(Tail(data), ExtractStep_v2(acc, Head(data)))

\* the second version of extractAllTraces: { traces, quartile1, quartile3 },
\* a quartile being <<>> (null) or <<series>>
extractAllTraces_v2(plotlyData) ==
    ExtractFrom_v2(IF plotlyData.hasData THEN plotlyData.data ELSE <<>>,
                   [traces |-> <<>>, quartile1 |-> <<>>, quartile3 |-> <<>>])

\* mutant: the entry is stored whether or not the payload yielded a trace
StoreResult_NoEmptyCheck(res, key, traces) == MapPut(res, key, traces)

\* the body of the async callback of loadAllData after fetchData returned:
\* the entry is stored only when the payload yielded at least one trace
StoreResult(res, key, traces) ==
    IF Len(MapKeys(traces)) > 0 THEN MapPut(res, key, traces) ELSE res

CollectLocations(locs, traces) ==
    IF Len(MapKeys(traces)) > 0 THEN SetAddAll(locs, MapKeys(traces)) ELSE locs

\* where the callback of a source ends when fetchData threw: the catch block
\* logs the error and the callback's promise is fulfilled
OnFetchError == "failed"

\* how a request can fail: fetch throws, the status is not ok, or the status
\* is ok and reading the body throws
FailureKinds == {"throws", "status", "badbody"}

\* mutant: a direct answer with a status that is not ok throws at once, as
\* the proxy's does
AfterDirectFailure_StatusThrows(kind) == IF kind = "status" THEN OnFetchError ELSE "proxy"

\* fetchData after its direct request failed: a status that is not ok falls
\* out of the try block, an exception is caught; both reach the proxy request
AfterDirectFailure(kind) == "proxy"

\* global selectedLocations, which no modelled handler changes
selectedLocations == <<<<"O", "e", "s", "t", "e", "r", "r", "e", "i", "c", "h">>>>

\* 'Oesterreich', the one member of the initial selection
Austria == Head(selectedLocations)

\* the characters of location names in the order of their code units
NameChars ==
    <<" ", "-", ".", "0", "1", "2", "3", "4", "5", "6", "7", "8", "9",
      "A", "B", "C", "D", "E", "F", "G", "H", "I", "J", "K", "L", "M",
      "N", "O", "P", "Q", "R", "S", "T", "U", "V", "W", "X", "Y", "Z",
      "a", "b", "c", "d", "e", "f", "g", "h", "i", "j", "k", "l", "m",
      "n", "o", "p", "q", "r", "s", "t", "u", "v", "w", "x", "y", "z">>

NameCharCode(c) == CHOOSE i \in 1..Len(NameChars) : NameChars[i] = c

RECURSIVE NameLess(_, _)
NameLess(a, b) ==
    IF b = <<>> THEN FALSE
    ELSE IF a = <<>> THEN TRUE
    ELSE IF Head(a) # Head(b) THEN NameCharCode(Head(a)) < NameCharCode(Head(b))
    ELSE NameLess(Tail(a), Tail(b))

RECURSIVE InsertName(_, _)
InsertName(sorted, e) ==
    IF sorted = <<>> THEN <<e>>
    ELSE IF NameLess(e, Head(sorted)) THEN <<e>> \o sorted
    ELSE <<Head(sorted)>> \o InsertName(Tail(sorted), e)

\* Array.prototype.sort() on location names
RECURSIVE SortNames(_, _)
SortNames(xs, sorted) ==
    IF xs = <<>> THEN sorted ELSE SortNames(Tail(xs), InsertName(sorted, Head(xs)))

\* set.has(x)
SetHas(q, x) == \E i \in 1..Len(q) : q[i] = x

\* set.delete(x)
SetDelete(q, x) == SelectSeq(q, LAMBDA e : e # x)

\* the checkboxes buildLocationList creates: Austria first, then the other
\* locations sorted, each checked when it is selected
buildLocationList(locations, selected) ==
    LET sortedLocations ==
            <<Austria>> \o SortNames(SelectSeq(locations, LAMBDA l : l # Austria), <<>>)
    IN  [i \in 1..Len(sortedLocations) |->
            [location |-> sortedLocations[i], checked |-> SetHas(selected, sortedLocations[i])]]

\* the traces createChart pushes for one entry of allData
ChartTracesOf(entry, locations) ==
    LET shown == SelectSeq(locations, LAMBDA loc : MapHas(entry[2], loc))
    IN  [i \in 1..Len(shown) |->
            [source |-> entry[1], location |-> shown[i],
             x |-> MapGet(entry[2], shown[i]).x, y |-> MapGet(entry[2], shown[i]).y]]

RECURSIVE createChart(_, _)
createChart(data, locations) ==
    IF data = <<>> THEN <<>>
    ELSE ChartTracesOf(Head(data), locations) \o createChart(Tail(data), locations)

\* the catch block of init
InitFailed ==
    [pc |-> "finished", loading |-> "hidden", error |-> "visible", chart |-> <<>>,
     selectedLocations |-> selectedLocations, checkboxes |-> <<>>]

\* mutant: init does not test whether any source was loaded
InitResumes_NoEmptyCheck(data) ==
    [pc |-> "finished", loading |-> "hidden", error |-> "hidden",
     chart |-> <<createChart(data, selectedLocations)>>,
     selectedLocations |-> selectedLocations,
     checkboxes |-> buildLocationList(allLocations, selectedLocations)]

\* init after loadAllData returned data: without any source it throws into
\* its catch block, else it hides the loading indicator and creates the chart
InitResumes(data) ==
    IF Len(MapKeys(data)) = 0 THEN InitFailed
    ELSE [pc |-> "finished", loading |-> "hidden", error |-> "hidden",
          chart |-> <<createChart(data, selectedLocations)>>,
          selectedLocations |-> selectedLocations,
          checkboxes |-> buildLocationList(allLocations, selectedLocations)]

(***************************************************************************)
(* Colours                                                                 *)
(***************************************************************************)
HexChars == <<"0", "1", "2", "3", "4", "5", "6", "7", "8", "9", "a", "b", "c", "d", "e", "f">>

UpperHexChars ==
    <<"0", "1", "2", "3", "4", "5", "6", "7", "8", "9", "A", "B", "C", "D", "E", "F">>

IsHexDigit(c) == \E i \in 1..16 : HexChars[i] = c \/ UpperHexChars[i] = c

HexVal(c) == (CHOOSE i \in 1..16 : HexChars[i] = c \/ UpperHexChars[i] = c) - 1

\* s.replace('#', ''): s without its first '#'
RemoveFirstHash(s) ==
    LET at == {i \in 1..Len(s) : s[i] = "#"}
    IN  IF at = {} THEN s
        ELSE SubSeq(s, 1, Least(at) - 1) \o SubSeq(s, Least(at) + 1, Len(s))

RECURSIVE HexDigitsValue(_, _)
HexDigitsValue(s, n) ==
    IF n = 0 THEN 0 ELSE HexDigitsValue(s, n - 1) * 16 + HexVal(s[n])

\* parseInt(s, 16) of a string without sign and white space: the value of its
\* leading hexadecimal digits, <<>> (NaN) when it has none
parseIntHex(s) ==
    LET e == Least({j \in 1..(Len(s) + 1) : j = Len(s) + 1 \/ ~IsHexDigit(s[j])})
    IN  IF e = 1 THEN <<>> ELSE <<HexDigitsValue(s, e - 1)>>

\* n.toString(16) for n >= 0
RECURSIVE toStringHex(_)
toStringHex(n) ==
    IF n < 16 THEN <<HexChars[n + 1]>>
    ELSE toStringHex(n \div 16) \o <<HexChars[(n % 16) + 1]>>

Min(a, b) == IF a <= b THEN a ELSE b

\* mutant: Math.round instead of Math.floor
LightenChannel_Round(c, amount) ==
    Min(255, (2 * (c * amount[2] + (255 - c) * amount[1]) + amount[2]) \div (2 * amount[2]))

\* Math.min(255, Math.floor(c + (255 - c) * amount)) for a channel c and the
\* amount amount[1] / amount[2]
LightenChannel(c, amount) ==
    Min(255, (c * amount[2] + (255 - c) * amount[1]) \div amount[2])

\* mutant: the digits are not padded to six
ColorString_NoPad(r, g, b) ==
    <<"#">> \o toStringHex(r * 65536 + g * 256 + b)

\* the string built from the three channels
ColorString(r, g, b) ==
    <<"#">> \o padStart(toStringHex(r * 65536 + g * 256 + b), 6, "0")

\* lightenColor(hex, amount) for a colour of at most six digits; when parseInt
\* gives NaN every channel is NaN, which the shifts turn into 0
lightenColor(hex, amount) ==
    LET num == parseIntHex(RemoveFirstHash(hex))
    IN  IF num = <<>> THEN ColorString(0, 0, 0)
        ELSE ColorString(LightenChannel(num[1] \div 65536, amount),
                         LightenChannel((num[1] \div 256) % 256, amount),
                         LightenChannel(num[1] % 256, amount))

(***************************************************************************)
(* JS values held by the fields of a parsed row                            *)
(***************************************************************************)
Str(s) == [type |-> "string", val |-> s]

Num(n) == [type |-> "number", val |-> n]

DateVal(t) == [type |-> "date", val |-> t]

Undefined == [type |-> "undefined", val |-> 0]

Null == [type |-> "null", val |-> 0]

\* the truthiness of a value: "", 0, null and undefined are falsy
Truthy(v) ==
    IF v.type = "string" THEN v.val # <<>>
    ELSE IF v.type = "number" THEN v.val # 0
    ELSE v.type = "date"

\* v || 0
OrZero(v) == IF Truthy(v) THEN v ELSE Num(0)

\* String(v) of a number or a string
ToStr(v) == IF v.type = "number" THEN NumToStr(v.val) ELSE v.val

\* a + b: numeric addition of two numbers, concatenation otherwise
JsAdd(a, b) ==
    IF a.type = "number" /\ b.type = "number"
    THEN Num(a.val + b.val)
    ELSE Str(ToStr(a) \o ToStr(b))

\* row[key]: undefined when the row has no such property
Get(row, key) == IF MapHas(row, key) THEN MapGet(row, key) ELSE Undefined

\* the property names the program uses
K_COVID == <<"C", "O", "V", "I", "D">>

K_INFLUENZA == <<"I", "N", "F", "L", "U", "E", "N", "Z", "A">>

K_RSV == <<"R", "S", "V">>

K_PNEUMOKOKKEN == <<"P", "N", "E", "U", "M", "O", "K", "O", "K", "K", "E", "N">>

K_SONSTIGE == <<"S", "O", "N", "S", "T", "I", "G", "E">>

K_AUFNAHMEN == <<"A", "U", "F", "N", "A", "H", "M", "E", "N">>

K_BEV_ZAHL == <<"B", "E", "V", "_", "Z", "A", "H", "L">>

K_KW == <<"K", "W">>

K_BUNDESLAND == <<"B", "U", "N", "D", "E", "S", "L", "A", "N", "D">>

K_STATION == <<"S", "T", "A", "T", "I", "O", "N">>

K_WOHNORT == <<"W", "O", "H", "N", "O", "R", "T">>

K_ALTERSGRUPPE == <<"A", "L", "T", "E", "R", "S", "G", "R", "U", "P", "P", "E">>

K_GESCHLECHT == <<"G", "E", "S", "C", "H", "L", "E", "C", "H", "T">>

K_date == <<"d", "a", "t", "e">>

NumericColumns == <<K_COVID, K_INFLUENZA, K_RSV, K_PNEUMOKOKKEN, K_SONSTIGE, K_AUFNAHMEN>>

DemographicsNumericColumns == Append(NumericColumns, K_BEV_ZAHL)

(***************************************************************************)
(* CSV parser                                                              *)
(***************************************************************************)
IsWhite(c) == c \in {" ", "\t", "\n", "\r"}

\* the greatest element of a non-empty set of integers
Greatest(S) == CHOOSE x \in S : \A y \in S : x >= y

\* s without its leading white space
TrimLeft(s) ==
    LET black == {i \in 1..Len(s) : ~IsWhite(s[i])}
    IN  IF black = {} THEN <<>> ELSE SubSeq(s, Least(black), Len(s))

\* String.prototype.trim
trim(s) ==
    LET black == {i \in 1..Len(s) : ~IsWhite(s[i])}
    IN  IF black = {} THEN <<>> ELSE SubSeq(s, Least(black), Greatest(black))

\* s.replace(/"/g, '')
StripQuotes(s) == SelectSeq(s, LAMBDA c : c # "\"")

\* s.split(sep) for a one-character separator: the pieces between the
\* separators, one more than there are separators
split(s, sep) ==
    LET seps   == {i \in 1..Len(s) : s[i] = sep}
        n      == Cardinality(seps)
        pos(k) == IF k = 0 THEN 0
                  ELSE IF k = n + 1 THEN Len(s) + 1
                  ELSE CHOOSE i \in seps : Cardinality({j \in seps : j < i}) = k - 1
    IN  [k \in 1..(n + 1) |-> SubSeq(s, pos(k - 1) + 1, pos(k) - 1)]

\* line.split(';').map(v => v.trim().replace(/"/g, ''))
Fields(line) ==
    LET parts == split(line, ";")
    IN  [i \in 1..Len(parts) |-> StripQuotes(trim(parts[i]))]

\* parseInt(s): <<>> for NaN, else <<n>>
parseInt(s) ==
    LET t    == TrimLeft(s)
        neg  == t # <<>> /\ Head(t) = "-"
        body == IF t # <<>> /\ Head(t) \in {"-", "+"} THEN Tail(t) ELSE t
        e    == DigitRunEnd(body, 1)
    IN  IF e = 1 THEN <<>>
        ELSE <<IF neg THEN 0 - DigitsValue(body, 1, e) ELSE DigitsValue(body, 1, e)>>

\* n || 0 for the result n of parseInt
NaNAsZero(n) == IF n = <<>> THEN Num(0) ELSE Num(n[1])

\* parseInt(v) || 0
ParseIntOrZero(s) == NaNAsZero(parseInt(s))

\* headers.forEach((header, index) => { row[header] = values[index]; })
RECURSIVE AssignFields(_, _, _, _)
AssignFields(row, headers, values, i) ==
    IF i > Len(headers) THEN row
    ELSE AssignFields(MapPut(row, headers[i], Str(values[i])), headers, values, i + 1)

\* cols.forEach(col => { if (row[col]) row[col] = parseInt(row[col]) || 0; })
RECURSIVE ConvertNumeric(_, _, _)
ConvertNumeric(row, cols, i) ==
    IF i > Len(cols) THEN row
    ELSE ConvertNumeric(
            IF Truthy(Get(row, cols[i]))
            THEN MapPut(row, cols[i], ParseIntOrZero(Get(row, cols[i]).val))
            ELSE row,
            cols, i + 1)

\* the value parseKW's result has as a property: null or the Date
NullableDate(d) == IF d = <<>> THEN Null ELSE DateVal(d[1])

\* if (row.KW) row.date = parseKW(row.KW)
AttachDate(row, kw, zone) ==
    IF Truthy(kw) THEN MapPut(row, K_date, NullableDate(parseKW(kw.val, zone))) ELSE row

\* mutant: the row is pushed whether or not it has a date
PushIfDated_Always(data, row) == Append(data, row)

\* if (row.date) data.push(row)
PushIfDated(data, row) == IF Truthy(Get(row, K_date)) THEN Append(data, row) ELSE data

\* the row built from the fields of one line
BuildRow(headers, values, cols, zone) ==
    LET converted == ConvertNumeric(AssignFields(<<>>, headers, values, 1), cols, 1)
    IN  AttachDate(converted, Get(converted, K_KW), zone)

\* the body of the for loop: a line with another field count is skipped
ParseLine(data, headers, values, cols, zone) ==
    IF Len(values) # Len(headers) THEN data
    ELSE PushIfDated(data, BuildRow(headers, values, cols, zone))

RECURSIVE ParseLines(_, _, _, _, _, _)
ParseLines(lines, headers, cols, zone, i, data) ==
    IF i > Len(lines) THEN data
    ELSE ParseLines(lines, headers, cols, zone, i + 1,
                    ParseLine(data, headers, Fields(lines[i]), cols, zone))

\* the lines after the header, when there are at least two lines
ParseAll(lines, cols, zone) ==
    IF Len(lines) < 2 THEN <<>>
    ELSE ParseLines(lines, Fields(lines[1]), cols, zone, 2, <<>>)

ParseWith(csvText, cols, zone) == ParseAll(split(trim(csvText), "\n"), cols, zone)

parseCSV(csvText, zone) == ParseWith(csvText, NumericColumns, zone)

parseDemographicsCSV(csvText, zone) == ParseWith(csvText, DemographicsNumericColumns, zone)

(***************************************************************************)
(* SARI hospital admissions: filtering and aggregation                     *)
(***************************************************************************)
AT == <<"A", "T">>

ALL == <<"A", "L", "L">>

Diagnosen == <<"COVID", "INFLUENZA", "RSV", "PNEUMOKOKKEN", "SONSTIGE">>

\* the row property that holds the count of a diagnosis
DiagnoseKey(diagnose) ==
    CASE diagnose = "COVID" -> K_COVID
      [] diagnose = "INFLUENZA" -> K_INFLUENZA
      [] diagnose = "RSV" -> K_RSV
      [] diagnose = "PNEUMOKOKKEN" -> K_PNEUMOKOKKEN
      [] diagnose = "SONSTIGE" -> K_SONSTIGE

\* filtered.filter(row => row[key] === value)
FilterEq(rows, key, value) == SelectSeq(rows, LAMBDA row : Get(row, key) = Str(value))

\* mutant: the region filter is applied for 'AT' as well
RegionFilter_NoSentinel(rows, key, bundesland) == FilterEq(rows, key, bundesland)

\* if (bundesland !== 'AT') filtered = filtered.filter(...)
RegionFilter(rows, key, bundesland) ==
    IF bundesland # AT THEN FilterEq(rows, key, bundesland) ELSE rows

\* mutant: the station argument is ignored
StationFilter_Ignored(rows, station) == rows

\* if (station !== 'ALL') filtered = filtered.filter(...)
StationFilter(rows, station) ==
    IF station # ALL THEN FilterEq(rows, K_STATION, station) ELSE rows

\* the object a date gets when its first row is met
NewGroup(row) ==
    [date |-> Get(row, K_date).val, COVID |-> Num(0), INFLUENZA |-> Num(0),
     RSV |-> Num(0), PNEUMOKOKKEN |-> Num(0), SONSTIGE |-> Num(0)]

\* mutant: the row's counts replace the totals of its date
AddRow_Overwrite(group, row) ==
    [d \in DOMAIN group |->
        IF d = "date" THEN group.date ELSE OrZero(Get(row, DiagnoseKey(d)))]

\* grouped[dateKey].X += row.X || 0, for the five diagnoses
AddRow(group, row) ==
    [d \in DOMAIN group |->
        IF d = "date" THEN group.date
        ELSE JsAdd(group[d], OrZero(Get(row, DiagnoseKey(d))))]

\* the body of the forEach of filterSariData for one row
GroupRow(grouped, row, dateKey) ==
    MapPut(grouped, dateKey,
           AddRow(IF MapHas(grouped, dateKey) THEN MapGet(grouped, dateKey)
                  ELSE NewGroup(row),
                  row))

\* filtered.forEach(row => { ... }) of filterSariData
RECURSIVE GroupByDate(_, _)
GroupByDate(rows, grouped) ==
    IF rows = <<>> THEN grouped
    ELSE GroupByDate(Tail(rows),
                     GroupRow(grouped, Head(rows),
                              ISODateString(Get(Head(rows), K_date).val)))

\* xs.sort((a, b) => a.date - b.date): a stable sort by date
RECURSIVE InsertByDate(_, _)
InsertByDate(sorted, e) ==
    IF sorted = <<>> THEN <<e>>
    ELSE IF Head(sorted).date <= e.date THEN <<Head(sorted)>> \o InsertByDate(Tail(sorted), e)
    ELSE <<e>> \o sorted

RECURSIVE SortByDateFrom(_, _)
SortByDateFrom(xs, sorted) ==
    IF xs = <<>> THEN sorted ELSE SortByDateFrom(Tail(xs), InsertByDate(sorted, Head(xs)))

SortByDate(xs) == SortByDateFrom(xs, <<>>)

filterSariData(data, bundesland, station) ==
    SortByDate(MapValues(GroupByDate(
        StationFilter(RegionFilter(data, K_BUNDESLAND, bundesland), station), <<>>)))

filterSariDataByStation(data, bundesland, stationType) ==
    SortByDate(MapValues(GroupByDate(
        FilterEq(RegionFilter(data, K_BUNDESLAND, bundesland), K_STATION, stationType), <<>>)))

\* the bar traces built from aggregated rows: one per diagnosis
ChartDiagnosen == <<"COVID", "INFLUENZA", "PNEUMOKOKKEN", "RSV", "SONSTIGE">>

BarTraces(dates, rows, ward) ==
    [i \in 1..Len(ChartDiagnosen) |->
        [x |-> dates,
         y |-> [j \in 1..Len(rows) |-> rows[j][ChartDiagnosen[i]]],
         name |-> ChartDiagnosen[i],
         ward |-> ward]]

DateStrings(rows) == [j \in 1..Len(rows) |-> ISODateString(rows[j].date)]

\* the branch of createSariChart for station 'ALL': normal and intensive wards
\* as two groups of traces over the dates of the normal ward (of the intensive
\* ward when the normal ward has no row)
ChartAllStations(normalData, intensivData) ==
    IF Len(normalData) = 0 /\ Len(intensivData) = 0
    THEN [state |-> "nodata"]
    ELSE [state |-> "chart",
          traces |-> BarTraces(DateStrings(IF Len(normalData) > 0 THEN normalData
                                           ELSE intensivData),
                               normalData, "N") \o
                     BarTraces(DateStrings(IF Len(normalData) > 0 THEN normalData
                                           ELSE intensivData),
                               intensivData, "I")]

\* the branch of createSariChart for a single station
ChartSingleStation(filtered) ==
    IF Len(filtered) = 0
    THEN [state |-> "nodata"]
    ELSE [state |-> "chart",
          traces |-> BarTraces(DateStrings(filtered), filtered, "single")]

\* createSariChart: the new content of the section; sariFilteredData is
\* assigned in the single-station branch only
createSariChart(data, ui, filtered) ==
    IF ui.station = ALL
    THEN ChartAllStations(filterSariDataByStation(data, ui.bundesland, <<"N">>),
                          filterSariDataByStation(data, ui.bundesland, <<"I">>))
    ELSE ChartSingleStation(filtered)

\* sariFilteredData after createSariChart
FilteredAfterChart(data, ui, oldFiltered) ==
    IF ui.station = ALL THEN oldFiltered
    ELSE filterSariData(data, ui.bundesland, ui.station)

(***************************************************************************)
(* SARI demographics: aggregation by age group, gender and diagnosis       *)
(***************************************************************************)
\* a JS number that may be a fraction: <<numerator, denominator>>, denominator > 0
\* (floating-point rounding is not modelled)
Rat(n) == <<n, 1>>

RatDiv(a, b) == <<a[1] * b[2], a[2] * b[1]>>

RatMul(a, b) == <<a[1] * b[1], a[2] * b[2]>>

RatPositive(a) == a[1] > 0

RECURSIVE GCD(_, _)
GCD(a, b) == IF b = 0 THEN a ELSE GCD(b, a % b)

\* the fraction in lowest terms (numerators are never negative here)
Reduce(a) == <<a[1] \div GCD(a[1], a[2]), a[2] \div GCD(a[1], a[2])>>

RatEq(a, b) == Reduce(a) = Reduce(b)

Underscore == <<"_">>

\* `${v}`: the text a template literal puts for a value
TemplateStr(v) ==
    IF v.type = "number" THEN NumToStr(v.val)
    ELSE IF v.type = "string" THEN v.val
    ELSE <<"u", "n", "d", "e", "f", "i", "n", "e", "d">>

\* if (startDate && endDate) filtered = filtered.filter(row => row.date >= startDate && row.date <= endDate)
\* (startDate, endDate: <<>> for undefined, else <<Date>>)
TimeFilter(rows, startDate, endDate) ==
    IF startDate # <<>> /\ endDate # <<>>
    THEN SelectSeq(rows, LAMBDA row : /\ Get(row, K_date).val >= startDate[1]
                                      /\ Get(row, K_date).val <= endDate[1])
    ELSE rows

\* mutant: every row that carries a population adds a sample
TrackPopulation_EveryRow(pops, row, popKey) ==
    IF Truthy(Get(row, K_BEV_ZAHL))
    THEN Append(pops, <<popKey, [ageGroup |-> Get(row, K_ALTERSGRUPPE),
                               gender |-> Get(row, K_GESCHLECHT),
                               pop |-> Get(row, K_BEV_ZAHL).val]>>)
    ELSE pops

\* if (!populationByAgeGender[popKey] && row.BEV_ZAHL) populationByAgeGender[popKey] = {...}
TrackPopulation(pops, row, popKey) ==
    IF ~MapHas(pops, popKey) /\ Truthy(Get(row, K_BEV_ZAHL))
    THEN MapPut(pops, popKey, [ageGroup |-> Get(row, K_ALTERSGRUPPE),
                               gender |-> Get(row, K_GESCHLECHT),
                               pop |-> Get(row, K_BEV_ZAHL).val])
    ELSE pops

\* `${row.ALTERSGRUPPE}_${row.GESCHLECHT}_${row.KW}`
PopKeyOf(row) ==
    TemplateStr(Get(row, K_ALTERSGRUPPE)) \o Underscore \o
    TemplateStr(Get(row, K_GESCHLECHT)) \o Underscore \o TemplateStr(Get(row, K_KW))

RECURSIVE PopulationByAgeGender(_, _)
PopulationByAgeGender(rows, pops) ==
    IF rows = <<>> THEN pops
    ELSE PopulationByAgeGender(Tail(rows), TrackPopulation(pops, Head(rows), PopKeyOf(Head(rows))))

\* `${row.ALTERSGRUPPE}_${row.GESCHLECHT}_${diagnose}`
AggKeyOf(row, diagnose) ==
    TemplateStr(Get(row, K_ALTERSGRUPPE)) \o Underscore \o
    TemplateStr(Get(row, K_GESCHLECHT)) \o Underscore \o DiagnoseKey(diagnose)

\* the bucket of a key: the existing one, or a new one with count 0
BucketOf(aggregated, key, row, diagnose) ==
    IF MapHas(aggregated, key) THEN MapGet(aggregated, key)
    ELSE [ageGroup |-> Get(row, K_ALTERSGRUPPE), gender |-> Get(row, K_GESCHLECHT),
          diagnose |-> diagnose, count |-> Num(0)]

\* aggregated[key].count += row[diagnose] || 0
AddCount(bucket, v) == [bucket EXCEPT !.count = JsAdd(bucket.count, OrZero(v))]

\* diagnosen.forEach(diagnose => { ... }) for one row
RECURSIVE AggregateRow(_, _, _)
AggregateRow(aggregated, row, i) ==
    IF i > Len(Diagnosen) THEN aggregated
    ELSE AggregateRow(
            MapPut(aggregated, AggKeyOf(row, Diagnosen[i]),
                   AddCount(BucketOf(aggregated, AggKeyOf(row, Diagnosen[i]), row, Diagnosen[i]),
                            Get(row, DiagnoseKey(Diagnosen[i])))),
            row, i + 1)

RECURSIVE AggregateRows(_, _)
AggregateRows(rows, aggregated) ==
    IF rows = <<>> THEN aggregated
    ELSE AggregateRows(Tail(rows), AggregateRow(aggregated, Head(rows), 1))

\* `${p.ageGroup}_${p.gender}`
PairKey(ageGroup, gender) == TemplateStr(ageGroup) \o Underscore \o TemplateStr(gender)

\* one step of the loop over Object.values(populationByAgeGender): sums is the
\* pair <<popSums, popCounts>>; a key whose sum is absent or 0 is reset first
AddSample(sums, key, pop) ==
    LET fresh == ~MapHas(sums[1], key) \/ MapGet(sums[1], key) = 0
    IN  << MapPut(sums[1], key, (IF fresh THEN 0 ELSE MapGet(sums[1], key)) + pop),
           MapPut(sums[2], key, (IF fresh THEN 0 ELSE MapGet(sums[2], key)) + 1) >>

RECURSIVE PopSums(_, _)
PopSums(samples, sums) ==
    IF samples = <<>> THEN sums
    ELSE PopSums(Tail(samples),
                 AddSample(sums, PairKey(Head(samples).ageGroup, Head(samples).gender),
                           Head(samples).pop))

\* popCounts[popKey] ? popSums[popKey] / popCounts[popKey] : 0
PopulationOf(sums, key) ==
    IF MapHas(sums[2], key) /\ MapGet(sums[2], key) # 0
    THEN <<MapGet(sums[1], key), MapGet(sums[2], key)>>
    ELSE Rat(0)

\* Object.values(aggregated).forEach(item => { item.population = ... })
WithPopulation(items, sums) ==
    [i \in 1..Len(items) |->
        [ageGroup |-> items[i].ageGroup, gender |-> items[i].gender,
         diagnose |-> items[i].diagnose, count |-> Rat(items[i].count.val),
         population |-> PopulationOf(sums, PairKey(items[i].ageGroup, items[i].gender))]]

\* the part of aggregateDemographicsData after the filters
AggregateFiltered(filtered) ==
    WithPopulation(MapValues(AggregateRows(filtered, <<>>)),
                   PopSums(MapValues(PopulationByAgeGender(filtered, <<>>)), <<<<>>, <<>>>>))

aggregateDemographicsData(data, bundesland, station, startDate, endDate) ==
    AggregateFiltered(
        TimeFilter(StationFilter(RegionFilter(data, K_WOHNORT, bundesland), station),
                   startDate, endDate))

\* mutant: the count is divided by the population without the factor 100000
Per100k_NoFactor(item) ==
    IF RatPositive(item.population)
    THEN [item EXCEPT !.count = RatDiv(item.count, item.population)]
    ELSE item

\* if (item.population > 0) item.count = (item.count / item.population) * 100000
Per100k(item) ==
    IF RatPositive(item.population)
    THEN [item EXCEPT !.count = RatMul(RatDiv(item.count, item.population), Rat(100000))]
    ELSE item

\* sariDemographicsDates[idx]: undefined outside the array
DateAt(dates, idx) == IF idx >= 0 /\ idx < Len(dates) THEN <<dates[idx + 1]>> ELSE <<>>

\* the part of createSariDemographicsChart after the aggregation
DemographicsChartOf(aggregated, per100k) ==
    IF Len(aggregated) = 0 THEN [state |-> "nodata"]
    ELSE [state |-> "chart",
          items |-> IF per100k THEN [i \in 1..Len(aggregated) |-> Per100k(aggregated[i])]
                    ELSE aggregated]

createSariDemographicsChart(data, dates, ui) ==
    DemographicsChartOf(
        aggregateDemographicsData(data, ui.bundesland, ui.station,
                                  DateAt(dates, ui.start), DateAt(dates, ui.end)),
        ui.per100k)

\* lexicographic, stable sort of strings: Array.prototype.sort() without comparator
RECURSIVE InsertStr(_, _)
InsertStr(sorted, e) ==
    IF sorted = <<>> THEN <<e>>
    ELSE IF StrLess(e, Head(sorted)) THEN <<e>> \o sorted
    ELSE <<Head(sorted)>> \o InsertStr(Tail(sorted), e)

RECURSIVE SortStrings(_, _)
SortStrings(xs, sorted) ==
    IF xs = <<>> THEN sorted ELSE SortStrings(Tail(xs), InsertStr(sorted, Head(xs)))

\* dateSet.add(row.date.toISOString().split('T')[0]) for every row
RECURSIVE DateKeySet(_, _)
DateKeySet(rows, keys) ==
    IF rows = <<>> THEN keys
    ELSE DateKeySet(Tail(rows),
                    IF Truthy(Get(Head(rows), K_date))
                    THEN SetAdd(keys, ISODateString(Get(Head(rows), K_date).val))
                    ELSE keys)

\* Array.from(dateSet).sort().map(d => new Date(d))
DatesOfKeys(keys) == [i \in 1..Len(keys) |-> DateFromISO(keys[i])]

DemographicsDates(data) == DatesOfKeys(SortStrings(DateKeySet(data, <<>>), <<>>))

(***************************************************************************)
(* SARI heatmap: age group x calendar week                                 *)
(***************************************************************************)
AGE_GROUPS_ORDER ==
    << <<"0", " ", "-", " ", "4">>,
       <<"5", " ", "-", " ", "1", "4">>,
       <<"1", "5", " ", "-", " ", "2", "9">>,
       <<"3", "0", " ", "-", " ", "4", "4">>,
       <<"4", "5", " ", "-", " ", "5", "9">>,
       <<"6", "0", " ", "-", " ", "6", "9">>,
       <<"7", "0", " ", "-", " ", "7", "9">>,
       <<"8", "0", "+">> >>

Reverse(q) == [i \in 1..Len(q) |-> q[Len(q) + 1 - i]]

\* the comparator of sortKWs and of the sort in createSariHeatmap: negative
\* when a sorts before b, 0 when one of the labels has no week number
CompareKW(matchA, matchB) ==
    IF matchA # <<>> /\ matchB # <<>>
    THEN IF matchA[2] - matchB[2] # 0 THEN matchA[2] - matchB[2]
         ELSE matchA[1] - matchB[1]
    ELSE 0

\* a stable sort with that comparator
RECURSIVE InsertKW(_, _)
InsertKW(sorted, e) ==
    IF sorted = <<>> THEN <<e>>
    ELSE IF CompareKW(KWMatch(e), KWMatch(Head(sorted))) < 0 THEN <<e>> \o sorted
    ELSE <<Head(sorted)>> \o InsertKW(Tail(sorted), e)

RECURSIVE SortKWsFrom(_, _)
SortKWsFrom(kws, sorted) ==
    IF kws = <<>> THEN sorted ELSE SortKWsFrom(Tail(kws), InsertKW(sorted, Head(kws)))

sortKWs(kws) == SortKWsFrom(kws, <<>>)

\* sariDemographicsData.forEach(row => { if (row.KW) kwSet.add(row.KW) })
RECURSIVE KWSet(_, _)
KWSet(rows, kws) ==
    IF rows = <<>> THEN kws
    ELSE KWSet(Tail(rows),
               IF Truthy(Get(Head(rows), K_KW)) THEN SetAdd(kws, Get(Head(rows), K_KW).val)
               ELSE kws)

HeatmapKWs(data) == sortKWs(KWSet(data, <<>>))

\* Array.prototype.indexOf on a list of strings: 0-based, -1 when absent;
\* v is <<>> for undefined, else <<string>>
IndexOf(q, v) ==
    IF v # <<>> /\ \E i \in 1..Len(q) : q[i] = v[1]
    THEN Least({i \in 1..Len(q) : q[i] = v[1]}) - 1
    ELSE -1

\* sariHeatmapKWs[idx]
KWAt(kws, idx) == IF idx >= 0 /\ idx < Len(kws) THEN <<kws[idx + 1]>> ELSE <<>>

StringOf(v) == IF v.type = "string" THEN <<v.val>> ELSE <<>>

\* the filter by KW range of aggregateHeatmapData
KWRangeFilter(rows, kws, startKWIdx, endKWIdx) ==
    IF Len(kws) > 0
    THEN SelectSeq(rows, LAMBDA row : /\ IndexOf(kws, StringOf(Get(row, K_KW))) >= startKWIdx
                                      /\ IndexOf(kws, StringOf(Get(row, K_KW))) <= endKWIdx)
    ELSE rows

\* (row.COVID || 0) + (row.INFLUENZA || 0) + (row.RSV || 0) + (row.PNEUMOKOKKEN || 0) + (row.SONSTIGE || 0)
AllDiagnoses(row) ==
    JsAdd(JsAdd(JsAdd(JsAdd(OrZero(Get(row, K_COVID)), OrZero(Get(row, K_INFLUENZA))),
                      OrZero(Get(row, K_RSV))),
                OrZero(Get(row, K_PNEUMOKOKKEN))),
          OrZero(Get(row, K_SONSTIGE)))

DiagnosisValue(row, diagnose) ==
    IF diagnose = ALL THEN AllDiagnoses(row) ELSE OrZero(Get(row, diagnose))

\* `${kw}_${ag}`
HeatKeyOf(row) == TemplateStr(Get(row, K_KW)) \o Underscore \o TemplateStr(Get(row, K_ALTERSGRUPPE))

HeatBucketOf(data, key, row) ==
    IF MapHas(data, key) THEN MapGet(data, key)
    ELSE [kw |-> Get(row, K_KW), ageGroup |-> Get(row, K_ALTERSGRUPPE),
          count |-> Num(0), pop |-> 0, popCount |-> 0]

\* data[key].count += ...; if (row.BEV_ZAHL) { data[key].pop += row.BEV_ZAHL; data[key].popCount++ }
HeatAddRow(bucket, row, value) ==
    IF Truthy(Get(row, K_BEV_ZAHL))
    THEN [bucket EXCEPT !.count = JsAdd(bucket.count, value),
                        !.pop = bucket.pop + Get(row, K_BEV_ZAHL).val,
                        !.popCount = bucket.popCount + 1]
    ELSE [bucket EXCEPT !.count = JsAdd(bucket.count, value)]

RECURSIVE HeatRows(_, _, _)
HeatRows(rows, data, diagnose) ==
    IF rows = <<>> THEN data
    ELSE HeatRows(Tail(rows),
                  MapPut(data, HeatKeyOf(Head(rows)),
                         HeatAddRow(HeatBucketOf(data, HeatKeyOf(Head(rows)), Head(rows)),
                                    Head(rows), DiagnosisValue(Head(rows), diagnose))),
                  diagnose)

aggregateHeatmapData(data, kws, bundesland, station, diagnose, startIdx, endIdx) ==
    MapValues(HeatRows(
        KWRangeFilter(StationFilter(RegionFilter(data, K_WOHNORT, bundesland), station), kws,
                      IndexOf(kws, KWAt(kws, startIdx)), IndexOf(kws, KWAt(kws, endIdx))),
        <<>>, diagnose))

\* aggregated.forEach(d => kwSet.add(d.kw))
RECURSIVE KWsOf(_, _)
KWsOf(aggregated, kws) ==
    IF aggregated = <<>> THEN kws
    ELSE KWsOf(Tail(aggregated), SetAdd(kws, Head(aggregated).kw.val))

\* the value of a found cell
CellValue(item, per100k) ==
    IF per100k /\ item.popCount > 0
    THEN IF RatPositive(<<item.pop, item.popCount>>)
         THEN RatMul(RatDiv(Rat(item.count.val), <<item.pop, item.popCount>>), Rat(100000))
         ELSE Rat(0)
    ELSE Rat(item.count.val)

\* aggregated.find(d => d.kw === kw && d.ageGroup === ag), then its value, 0 when not found
ZValue(aggregated, kw, ag, per100k) ==
    IF \E i \in 1..Len(aggregated) : aggregated[i].kw = Str(kw) /\ aggregated[i].ageGroup = Str(ag)
    THEN CellValue(aggregated[Least({i \in 1..Len(aggregated) :
                       aggregated[i].kw = Str(kw) /\ aggregated[i].ageGroup = Str(ag)})], per100k)
    ELSE Rat(0)

ZValues(aggregated, kws, ageGroups, per100k) ==
    [a \in 1..Len(ageGroups) |->
        [k \in 1..Len(kws) |-> ZValue(aggregated, kws[k], ageGroups[a], per100k)]]

\* the part of createSariHeatmap after the aggregation
HeatmapOf(aggregated, per100k) ==
    IF Len(aggregated) = 0 THEN [state |-> "nodata"]
    ELSE [state |-> "chart",
          x |-> sortKWs(KWsOf(aggregated, <<>>)),
          y |-> Reverse(AGE_GROUPS_ORDER),
          z |-> ZValues(aggregated, sortKWs(KWsOf(aggregated, <<>>)),
                        Reverse(AGE_GROUPS_ORDER), per100k)]

createSariHeatmap(data, kws, ui) ==
    HeatmapOf(aggregateHeatmapData(data, kws, ui.bundesland, ui.station, ui.diagnose,
                                   ui.start, ui.end),
              ui.per100k)

(***************************************************************************)
(* Values of the state before anything was loaded                          *)
(***************************************************************************)
SourceKeys == <<"sarscov2", "influenza", "rsv">>

Sources == {SourceKeys[i] : i \in 1..3}

KWIdle == kwInput = <<>> /\ kwString = <<>> /\ kwDate = <<>> /\ kwLabel = <<>>

CallIdle == fnInput = [fn |-> "none"] /\ fnResult = <<>>

LoadIdle ==
    /\ fetchPc = [s \in Sources |-> "idle"]
    /\ requests = [s \in Sources |-> 0]
    /\ responses = [s \in Sources |-> <<>>]
    /\ fetched = [s \in Sources |-> <<>>]
    /\ results = <<>>
    /\ loadPc = "idle"
    /\ allData = <<>>
    /\ allLocations = <<>>
    /\ page = [pc |-> "loading", loading |-> "visible", error |-> "hidden", chart |-> <<>>,
               selectedLocations |-> selectedLocations, checkboxes |-> <<>>]

SariIdle ==
    /\ sariRawData = <<>>
    /\ sariFilteredData = <<>>
    /\ sariCall = [fn |-> "none"]
    /\ sariUI = [bundesland |-> AT, station |-> ALL]
    /\ sariChart = [state |-> "loading"]

DemoIdle ==
    /\ sariDemographicsData = <<>>
    /\ sariDemographicsDates = <<>>
    /\ sariHeatmapKWs = <<>>
    /\ demoUI = [bundesland |-> AT, station |-> ALL, per100k |-> FALSE,
                 start |-> 0, end |-> 0, max |-> 0]
    /\ demoChart = [state |-> "loading"]
    /\ heatUI = [bundesland |-> AT, station |-> ALL, diagnose |-> ALL,
                 per100k |-> FALSE, start |-> 0, end |-> 0, max |-> 0]
    /\ heatChart = [state |-> "loading"]
    /\ heatTimer = [state |-> "running", inits |-> 0]

(***************************************************************************)
(* Specification of the calendar-week functions                            *)
(***************************************************************************)
\* the labels of the data files: weeks 1..53 of the years MinYear..MaxYear
KWLabels == {KWLabel(w, y) : w \in 1..53, y \in MinYear..MaxYear}

\* strings that are not a label "<week>. KW <year>" with a week in 1..53 and a
\* year of four digits: text around a label, week 0 and 54, a year of two and
\* of five digits, a label without its dot, without its week, without its year,
\* and a bare year
MalformedLabels ==
    { <<"x">> \o KWLabel(19, 2023),
      KWLabel(19, 2023) \o <<"x">>,
      KWLabel(0, 2023),
      KWLabel(54, 2023),
      KWLabel(1, 23),
      KWLabel(1, 20234),
      <<"1", "9", " ", "K", "W", " ", "2", "0", "2", "3">>,
      <<"K", "W", " ", "2", "0", "2", "3">>,
      <<"1", "9", ".", " ", "K", "W">>,
      <<"2", "0", "2", "3">> }

KWInputs == KWLabels \cup MalformedLabels

InitKW ==
    /\ tz \in TimeZones
    /\ kwInput \in KWInputs
    /\ kwString = <<>> /\ kwDate = <<>> /\ kwLabel = <<>>
    /\ CallIdle /\ LoadIdle /\ SariIdle /\ DemoIdle

\* the call parseKW(kwString) on the label
CallParseKW ==
    /\ kwString = <<>>
    /\ kwString' = kwInput
    /\ kwDate' = parseKW(kwInput, tz)
    /\ kwLabel' = <<>>
    /\ UNCHANGED <<tz, kwInput, callVars, loadVars, sariVars, demoVars>>

\* a call formatDateAsKW(kwDate) on the date parseKW returned
CallFormatDateAsKW ==
    /\ kwDate # <<>>
    /\ kwLabel = <<>>
    /\ kwLabel' = formatDateAsKW(kwDate[1], tz)
    /\ UNCHANGED <<tz, kwInput, kwString, kwDate, callVars, loadVars, sariVars, demoVars>>

NextKW == CallParseKW \/ CallFormatDateAsKW

SpecKW == InitKW /\ [][NextKW]_vars

(***************************************************************************)
(* Specification of the wastewater load (loadAllData, fetchData)           *)
(***************************************************************************)
Oesterreich == <<"O", "e", "s", "t", "e", "r", "r", "e", "i", "c", "h">>

Wien == <<"W", "i", "e", "n">>

QuartilTrace ==
    Trace(<<"1", ".", " ">> \o Quartil \o <<" ">> \o Oesterreich, TRUE, TRUE, "scatter", "lines")

\* the payloads a wastewater endpoint may answer with
Payloads ==
    { [hasData |-> FALSE, data |-> <<>>],
      [hasData |-> TRUE,
       data |-> << Trace(<<"P", "r", "o", "b", "e", "n">>, TRUE, TRUE, "bar", "undefined"),
                   Trace(Wien, TRUE, TRUE, "scatter", "none"),
                   QuartilTrace >>],
      [hasData |-> TRUE,
       data |-> << QuartilTrace,
                   Trace(Oesterreich, TRUE, TRUE, "undefined", "undefined") >>],
      [hasData |-> TRUE,
       data |-> << Trace(Oesterreich, TRUE, TRUE, "scatter", "lines"),
                   Trace(Wien, TRUE, TRUE, "scatter", "lines"),
                   Trace(<<>>, TRUE, TRUE, "scatter", "lines"),
                   Trace(<<"G", "r", "a", "z">>, TRUE, FALSE, "scatter", "lines") >>] }

InitLoad == tz = 1 /\ KWIdle /\ CallIdle /\ LoadIdle /\ SariIdle /\ DemoIdle

\* loadAllData is called: results = {}, and map() starts the callback of every
\* source, each of which issues its direct request and suspends
StartLoadAllData ==
    /\ loadPc = "idle"
    /\ loadPc' = "running"
    /\ results' = <<>>
    /\ fetchPc' = [s \in Sources |-> "direct"]
    /\ requests' = [s \in Sources |-> 1]
    /\ UNCHANGED <<tz, kwVars, callVars, responses, fetched, allData, allLocations, page,
                   sariVars, demoVars>>

\* the callback of source s resumes with the payload fetchData returned
CallbackResumes(s, payload) ==
    LET traces == extractAllTraces(payload)
    IN  /\ fetchPc' = [fetchPc EXCEPT ![s] = "done"]
        /\ responses' = [responses EXCEPT ![s] = Append(@, "ok")]
        /\ fetched' = [fetched EXCEPT ![s] = <<payload>>]
        /\ results' = StoreResult(results, s, traces)
        /\ allLocations' = CollectLocations(allLocations, traces)
        /\ UNCHANGED <<tz, kwVars, callVars, requests, loadPc, allData, page, sariVars,
                       demoVars>>

\* the direct request answers with an ok status and a JSON body
DirectFetchReturns(s) ==
    /\ fetchPc[s] = "direct"
    /\ \E payload \in Payloads : CallbackResumes(s, payload)

\* the direct request throws, answers with a non-ok status or a body that is
\* not JSON: fetchData issues the proxy request
DirectFetchFails(s) ==
    /\ fetchPc[s] = "direct"
    /\ \E kind \in FailureKinds :
          /\ responses' = [responses EXCEPT ![s] = Append(@, kind)]
          /\ fetchPc' = [fetchPc EXCEPT ![s] = AfterDirectFailure(kind)]
    /\ requests' = [requests EXCEPT ![s] = IF fetchPc'[s] = "proxy" THEN 2 ELSE @]
    /\ UNCHANGED <<tz, kwVars, callVars, fetched, results, loadPc, allData, allLocations,
                   page, sariVars, demoVars>>

\* the proxy request answers with an ok status and a JSON body
ProxyFetchReturns(s) ==
    /\ fetchPc[s] = "proxy"
    /\ \E payload \in Payloads : CallbackResumes(s, payload)

\* the proxy request fails too: fetchData throws into the callback
ProxyFetchFails(s) ==
    /\ fetchPc[s] = "proxy"
    /\ \E kind \in FailureKinds : responses' = [responses EXCEPT ![s] = Append(@, kind)]
    /\ fetchPc' = [fetchPc EXCEPT ![s] = OnFetchError]
    /\ UNCHANGED <<tz, kwVars, callVars, requests, fetched, results, loadPc, allData,
                   allLocations, page, sariVars, demoVars>>

\* await Promise.all(promises); return results; init resumes: it stores the
\* result in allData and shows the chart or, in its catch block, the banner
LoadAllDataSettles ==
    /\ loadPc = "running"
    /\ \/ \A s \in Sources : fetchPc[s] \in {"done", "failed"}
       \/ \E s \in Sources : fetchPc[s] = "rejected"
    /\ IF \E s \in Sources : fetchPc[s] = "rejected"
       THEN loadPc' = "rejected" /\ allData' = allData /\ page' = InitFailed
       ELSE loadPc' = "resolved" /\ allData' = results /\ page' = InitResumes(results)
    /\ UNCHANGED <<tz, kwVars, callVars, fetchPc, requests, responses, fetched, results,
                   allLocations, sariVars, demoVars>>

NextLoad ==
    \/ StartLoadAllData
    \/ \E s \in Sources : DirectFetchReturns(s)
    \/ \E s \in Sources : DirectFetchFails(s)
    \/ \E s \in Sources : ProxyFetchReturns(s)
    \/ \E s \in Sources : ProxyFetchFails(s)
    \/ LoadAllDataSettles

SpecLoad == InitLoad /\ [][NextLoad]_vars

\* initUI ran: the two buttons and the checkboxes have their listeners
LocationsListening == page.pc = "finished" /\ page.error = "hidden"

\* mutant: the handler does not redraw
PageAfterSelection_NoRedraw(p, selected, boxes) ==
    [p EXCEPT !.selectedLocations = selected, !.checkboxes = boxes]

\* a handler of the location selector ends with createChart()
PageAfterSelection(p, selected, boxes) ==
    [p EXCEPT !.selectedLocations = selected, !.checkboxes = boxes,
              !.chart = <<createChart(allData, selected)>>]

\* the 'change' handler of a checkbox, which the browser has just flipped
ToggleLocation ==
    /\ LocationsListening
    /\ \E i \in 1..Len(page.checkboxes) :
          LET box      == page.checkboxes[i]
              checked  == ~box.checked
              selected == IF checked THEN SetAdd(page.selectedLocations, box.location)
                          ELSE SetDelete(page.selectedLocations, box.location)
          IN  page' = PageAfterSelection(page, selected,
                          [page.checkboxes EXCEPT ![i].checked = checked])
    /\ UNCHANGED <<tz, kwVars, callVars, fetchPc, requests, responses, fetched, results,
                   loadPc, allData, allLocations, sariVars, demoVars>>

\* 'click' on select-all: selectedLocations = new Set(allLocations)
SelectAllClick ==
    /\ LocationsListening
    /\ page' = PageAfterSelection(page, allLocations,
                                  buildLocationList(allLocations, allLocations))
    /\ UNCHANGED <<tz, kwVars, callVars, fetchPc, requests, responses, fetched, results,
                   loadPc, allData, allLocations, sariVars, demoVars>>

\* 'click' on select-none: selectedLocations = new Set(['Oesterreich'])
SelectNoneClick ==
    /\ LocationsListening
    /\ page' = PageAfterSelection(page, <<Austria>>,
                                  buildLocationList(allLocations, <<Austria>>))
    /\ UNCHANGED <<tz, kwVars, callVars, fetchPc, requests, responses, fetched, results,
                   loadPc, allData, allLocations, sariVars, demoVars>>

\* the wastewater load followed by a user at the location selector
NextLocations ==
    \/ NextLoad
    \/ ToggleLocation
    \/ SelectAllClick
    \/ SelectNoneClick

SpecLocations == InitLoad /\ [][NextLocations]_vars

\* The load under the scheduling the platform guarantees: DOMContentLoaded
\* calls init, and a continuation whose promise has settled is run.  That a
\* request is ever answered is not guaranteed: fetch is called without a
\* timeout or an abort signal.
SpecLoadFair ==
    /\ InitLoad
    /\ [][NextLoad]_vars
    /\ WF_vars(StartLoadAllData)
    /\ WF_vars(LoadAllDataSettles)

(***************************************************************************)
(* Specification of the SARI hospital-admission section                    *)
(***************************************************************************)
Semicolon == <<";">>

Newline == <<"\n">>

SariHeader ==
    K_KW \o Semicolon \o K_BUNDESLAND \o Semicolon \o K_STATION \o Semicolon \o
    K_COVID \o Semicolon \o K_INFLUENZA \o Semicolon \o K_RSV \o Semicolon \o
    K_PNEUMOKOKKEN \o Semicolon \o K_SONSTIGE

Regions == {<<"W">>, <<"T">>}

Stations == {<<"N">>, <<"I">>}

\* the count fields of a line: plain numbers; or an empty field, a non-numeric
\* field, a zero and a quoted number
PlainCounts == <<"1", ";", "2", ";", "3", ";", "4", ";", "5">>

OddCounts == <<";", "x", ";", "0", ";", "\"", "2", "0", "\"", ";", "7">>

SariLine(week, year, bundesland, station, counts) ==
    KWLabel(week, year) \o Semicolon \o bundesland \o Semicolon \o station \o
    Semicolon \o counts

\* the lines of the data file: two regions, two stations, four week labels
\* ("53. KW 2022" and "1. KW 2023" are the same Monday), a line whose week
\* label does not parse and a line with too few fields
SariLines ==
    { SariLine(1, 2023, <<"W">>, <<"N">>, PlainCounts),
      SariLine(1, 2023, <<"W">>, <<"I">>, OddCounts),
      SariLine(1, 2023, <<"T">>, <<"N">>, OddCounts),
      SariLine(2, 2023, <<"W">>, <<"N">>, OddCounts),
      SariLine(2, 2023, <<"T">>, <<"I">>, PlainCounts),
      SariLine(53, 2022, <<"T">>, <<"N">>, PlainCounts),
      SariLine(52, 2022, <<"W">>, <<"I">>, PlainCounts),
      <<"K", "W", " ", "2", "0", "2", "3", ";", "W", ";", "N", ";", "1", ";", "2", ";", "3", ";", "4", ";", "5">>,
      <<"1", ".", " ", "K", "W", " ", "2", "0", "2", "3", ";", "W", ";", "N", ";", "1">> }

RECURSIVE JoinLines(_)
JoinLines(lines) ==
    IF lines = <<>> THEN <<>> ELSE Newline \o Head(lines) \o JoinLines(Tail(lines))

\* the texts the SARI endpoint may answer with: the header and up to
\* MaxSariRows lines, each line ended by a newline
SariCsvTexts ==
    { SariHeader \o JoinLines(lines) \o Newline :
        lines \in UNION { [1..n -> SariLines] : n \in 0..MaxSariRows } }

InitSari == tz \in TimeZones /\ KWIdle /\ CallIdle /\ LoadIdle /\ SariIdle /\ DemoIdle

\* loadSariData when fetchCSV returned a text: parse, then either the error
\* message (no row) or the first chart
LoadSariDataFrom(texts) ==
    /\ sariChart.state = "loading"
    /\ \E csvText \in texts : sariRawData' = parseCSV(csvText, tz)
    /\ IF Len(sariRawData') = 0
       THEN /\ sariFilteredData' = sariFilteredData
            /\ sariChart' = [state |-> "error"]
       ELSE /\ sariFilteredData' = FilteredAfterChart(sariRawData', sariUI, sariFilteredData)
            /\ sariChart' = createSariChart(sariRawData', sariUI, sariFilteredData')
    /\ UNCHANGED <<tz, kwVars, callVars, loadVars, sariCall, sariUI, demoVars>>

LoadSariData == LoadSariDataFrom(SariCsvTexts)

\* loadSariData when fetchCSV threw
LoadSariDataFails ==
    /\ sariChart.state = "loading"
    /\ sariChart' = [state |-> "error"]
    /\ UNCHANGED <<tz, kwVars, callVars, loadVars, sariRawData, sariFilteredData, sariCall,
                   sariUI, demoVars>>

SariBundeslandArgs == {AT} \cup Regions

SariStationArgs == {ALL} \cup Stations

\* a call filterSariData(bundesland, station)
CallFilterSariData ==
    /\ sariChart.state # "loading"
    /\ \E b \in SariBundeslandArgs, st \in SariStationArgs :
          sariCall' = [fn |-> "filterSariData", bundesland |-> b, station |-> st,
                       result |-> filterSariData(sariRawData, b, st)]
    /\ UNCHANGED <<tz, kwVars, callVars, loadVars, sariRawData, sariFilteredData, sariUI,
                   sariChart, demoVars>>

\* a call filterSariDataByStation(bundesland, stationType)
CallFilterSariDataByStation ==
    /\ sariChart.state # "loading"
    /\ \E b \in SariBundeslandArgs, st \in Stations :
          sariCall' = [fn |-> "filterSariDataByStation", bundesland |-> b, station |-> st,
                       result |-> filterSariDataByStation(sariRawData, b, st)]
    /\ UNCHANGED <<tz, kwVars, callVars, loadVars, sariRawData, sariFilteredData, sariUI,
                   sariChart, demoVars>>

NextSari ==
    \/ LoadSariData
    \/ LoadSariDataFails
    \/ CallFilterSariData
    \/ CallFilterSariDataByStation

SpecSari == InitSari /\ [][NextSari]_vars

(***************************************************************************)
(* The demographics section and the heatmap: load, then the controls       *)
(***************************************************************************)
DemoHeader ==
    K_KW \o Semicolon \o K_WOHNORT \o Semicolon \o K_STATION \o Semicolon \o
    K_ALTERSGRUPPE \o Semicolon \o K_GESCHLECHT \o Semicolon \o K_BEV_ZAHL \o Semicolon \o
    K_COVID \o Semicolon \o K_INFLUENZA \o Semicolon \o K_RSV \o Semicolon \o
    K_PNEUMOKOKKEN \o Semicolon \o K_SONSTIGE

Young == <<"0", " ", "-", " ", "4">>

Old == <<"8", "0", "+">>

DemoLine(week, bundesland, station, ageGroup, gender, population, counts) ==
    KWLabel(week, 2023) \o Semicolon \o bundesland \o Semicolon \o station \o Semicolon \o
    ageGroup \o Semicolon \o gender \o Semicolon \o population \o Semicolon \o counts

\* the lines of the demographics file: two weeks, two regions, two stations,
\* two age groups, two genders; the first two lines are the same demographic
\* cell seen from two regions with different populations, the fifth line has
\* no population
DemoLines ==
    { DemoLine(1, <<"W">>, <<"N">>, Young, <<"M">>, <<"1", "0", "0", "0">>, PlainCounts),
      DemoLine(1, <<"T">>, <<"I">>, Young, <<"M">>, <<"3", "0", "0", "0">>, PlainCounts),
      DemoLine(2, <<"W">>, <<"N">>, Young, <<"M">>, <<"2", "0", "0", "0">>, OddCounts),
      DemoLine(1, <<"W">>, <<"N">>, Young, <<"W">>, <<"5", "0", "0">>, PlainCounts),
      DemoLine(2, <<"W">>, <<"I">>, Old, <<"W">>, <<>>, PlainCounts) }

\* the texts the demographics endpoint may answer with
DemoCsvTexts ==
    { DemoHeader \o JoinLines(lines) \o Newline :
        lines \in UNION { [1..n -> DemoLines] : n \in 0..MaxDemoRows } }

\* the browser runs in UTC or in Vienna winter time
DemoTimeZones == {0, 1}

InitDemo == tz \in DemoTimeZones /\ KWIdle /\ CallIdle /\ LoadIdle /\ SariIdle /\ DemoIdle

\* the slider state initSariDemographicsUI and initSariHeatmapUI set
SlidersReset(ui, length) == [ui EXCEPT !.max = length - 1, !.start = 0, !.end = length - 1]

\* loadSariDemographicsData when fetchCSV returned a text: parse, then either
\* the error message (no row) or initSariDemographicsUI and the first chart
LoadSariDemographicsDataFrom(texts) ==
    /\ demoChart.state = "loading"
    /\ \E csvText \in texts : sariDemographicsData' = parseDemographicsCSV(csvText, tz)
    /\ IF Len(sariDemographicsData') = 0
       THEN /\ demoChart' = [state |-> "error"]
            /\ UNCHANGED <<sariDemographicsDates, demoUI>>
       ELSE /\ sariDemographicsDates' = DemographicsDates(sariDemographicsData')
            /\ demoUI' = SlidersReset(demoUI, Len(sariDemographicsDates'))
            /\ demoChart' = createSariDemographicsChart(sariDemographicsData',
                                                        sariDemographicsDates', demoUI')
    /\ UNCHANGED <<tz, kwVars, callVars, loadVars, sariVars, sariHeatmapKWs, heatUI, heatChart,
                   heatTimer>>

LoadSariDemographicsData == LoadSariDemographicsDataFrom(DemoCsvTexts)

\* loadSariDemographicsData when fetchCSV threw
LoadSariDemographicsDataFails ==
    /\ demoChart.state = "loading"
    /\ demoChart' = [state |-> "error"]
    /\ UNCHANGED <<tz, kwVars, callVars, loadVars, sariVars, sariDemographicsData,
                   sariDemographicsDates, sariHeatmapKWs, demoUI, heatUI,
                   heatChart, heatTimer>>

\* the controls of the demographics section have their listeners
DemoListening == demoChart.state \in {"chart", "nodata"}

\* a handler of the demographics section ran createSariDemographicsChart
\* with the controls at ui
DemoChanged(ui) ==
    /\ demoUI' = ui
    /\ demoChart' = createSariDemographicsChart(sariDemographicsData, sariDemographicsDates,
                                                demoUI')
    /\ UNCHANGED <<tz, kwVars, callVars, loadVars, sariVars, sariDemographicsData,
                   sariDemographicsDates, sariHeatmapKWs, heatUI, heatChart, heatTimer>>

DemoBundeslandOptions == {AT, <<"W">>}

DemoStationOptions == {ALL, <<"N">>}

\* 'change' of the region select
DemoBundeslandChange ==
    /\ DemoListening
    /\ \E b \in DemoBundeslandOptions \ {demoUI.bundesland} :
          DemoChanged([demoUI EXCEPT !.bundesland = b])

\* 'change' of the station select
DemoStationChange ==
    /\ DemoListening
    /\ \E st \in DemoStationOptions \ {demoUI.station} :
          DemoChanged([demoUI EXCEPT !.station = st])

\* 'change' of the per-100k checkbox
DemoPer100kChange ==
    /\ DemoListening
    /\ DemoChanged([demoUI EXCEPT !.per100k = ~demoUI.per100k])

\* mutant: the start slider is not held back at the end slider
ClampStart_Unchecked(ui, v) == [ui EXCEPT !.start = v]

\* the 'input' handler of a start slider: if (start > end) start = end
ClampStart(ui, v) == [ui EXCEPT !.start = IF v > ui.end THEN ui.end ELSE v]

\* the 'input' handler of an end slider: if (end < start) end = start
ClampEnd(ui, v) == [ui EXCEPT !.end = IF v < ui.start THEN ui.start ELSE v]

\* the start slider is dragged to v and released: 'input', then 'change'
DemoStartSlider ==
    /\ DemoListening
    /\ \E v \in (0..demoUI.max) \ {demoUI.start} : DemoChanged(ClampStart(demoUI, v))

\* the end slider is dragged to v and released: 'input', then 'change'
DemoEndSlider ==
    /\ DemoListening
    /\ \E v \in (0..demoUI.max) \ {demoUI.end} : DemoChanged(ClampEnd(demoUI, v))

\* mutant: the timer keeps running
TimerAfterInit_NotCleared(timer) == [timer EXCEPT !.inits = @ + 1]

\* clearInterval(checkData), then initSariHeatmapUI()
TimerAfterInit(timer) == [state |-> "cleared", inits |-> timer.inits + 1]

\* the 100 ms timer finds the demographics data loaded: it is cleared and
\* initSariHeatmapUI runs
HeatmapPoll ==
    /\ heatTimer.state = "running"
    /\ heatTimer.inits < MaxInits
    /\ Len(sariDemographicsData) > 0
    /\ heatTimer' = TimerAfterInit(heatTimer)
    /\ sariHeatmapKWs' = HeatmapKWs(sariDemographicsData)
    /\ heatUI' = SlidersReset(heatUI, Len(sariHeatmapKWs'))
    /\ heatChart' = createSariHeatmap(sariDemographicsData, sariHeatmapKWs', heatUI')
    /\ UNCHANGED <<tz, kwVars, callVars, loadVars, sariVars, sariDemographicsData,
                   sariDemographicsDates, demoUI, demoChart>>

\* the 100 ms timer finds no demographics data: nothing happens
HeatmapPollWaits ==
    /\ heatTimer.state = "running"
    /\ Len(sariDemographicsData) = 0
    /\ UNCHANGED vars

HeatListening == heatChart.state \in {"chart", "nodata"}

\* a handler of the heatmap section ran createSariHeatmap with the controls at ui
HeatChanged(ui) ==
    /\ heatUI' = ui
    /\ heatChart' = createSariHeatmap(sariDemographicsData, sariHeatmapKWs, heatUI')
    /\ UNCHANGED <<tz, kwVars, callVars, loadVars, sariVars, sariDemographicsData,
                   sariDemographicsDates, sariHeatmapKWs, demoUI, demoChart, heatTimer>>

HeatDiagnoseOptions == {ALL, K_COVID}

\* 'change' of the diagnosis select of the heatmap
HeatDiagnoseChange ==
    /\ HeatListening
    /\ \E d \in HeatDiagnoseOptions \ {heatUI.diagnose} :
          HeatChanged([heatUI EXCEPT !.diagnose = d])

\* 'change' of the per-100k checkbox of the heatmap
HeatPer100kChange ==
    /\ HeatListening
    /\ HeatChanged([heatUI EXCEPT !.per100k = ~heatUI.per100k])

\* the start slider of the heatmap is dragged to v and released
HeatStartSlider ==
    /\ HeatListening
    /\ \E v \in (0..heatUI.max) \ {heatUI.start} : HeatChanged(ClampStart(heatUI, v))

\* the end slider of the heatmap is dragged to v and released
HeatEndSlider ==
    /\ HeatListening
    /\ \E v \in (0..heatUI.max) \ {heatUI.end} : HeatChanged(ClampEnd(heatUI, v))

NextDemo ==
    \/ LoadSariDemographicsData
    \/ LoadSariDemographicsDataFails
    \/ DemoBundeslandChange
    \/ DemoStationChange
    \/ DemoPer100kChange
    \/ DemoStartSlider
    \/ DemoEndSlider
    \/ HeatmapPoll
    \/ HeatmapPollWaits
    \/ HeatDiagnoseChange
    \/ HeatPer100kChange

SpecDemo == InitDemo /\ [][NextDemo]_vars

\* the demographics section and the heatmap with a user who moves the four
\* range sliders and toggles the two per-100k checkboxes
NextSliders ==
    \/ LoadSariDemographicsData
    \/ LoadSariDemographicsDataFails
    \/ HeatmapPoll
    \/ HeatmapPollWaits
    \/ DemoStartSlider
    \/ DemoEndSlider
    \/ HeatStartSlider
    \/ HeatEndSlider
    \/ DemoPer100kChange
    \/ HeatPer100kChange

SpecSliders == InitDemo /\ [][NextSliders]_vars

(***************************************************************************)
(* The four aggregation functions called with arbitrary arguments, after   *)
(* the two SARI files were loaded (or failed to load)                      *)
(***************************************************************************)
\* small files: the header and up to MaxSariRows (MaxDemoRows) copies of one line
RECURSIVE Copies(_, _)
Copies(line, n) == IF n = 0 THEN <<>> ELSE Newline \o line \o Copies(line, n - 1)

SmallSariTexts ==
    { SariHeader \o Copies(SariLine(1, 2023, <<"W">>, <<"N">>, PlainCounts), n) \o Newline :
        n \in 0..MaxSariRows }

SmallDemoTexts ==
    { DemoHeader \o Copies(DemoLine(1, <<"W">>, <<"N">>, Young, <<"M">>,
                                    <<"1", "0", "0", "0">>, PlainCounts), n) \o Newline :
        n \in 0..MaxDemoRows }

InitAgg == tz = 1 /\ KWIdle /\ CallIdle /\ LoadIdle /\ SariIdle /\ DemoIdle

LoadSmallSariData == LoadSariDataFrom(SmallSariTexts)

LoadSmallSariDemographicsData == LoadSariDemographicsDataFrom(SmallDemoTexts)

\* the dates a caller may pass: none, a date of the slider list, or a week later
DateArgs == {<<>>} \cup {<<sariDemographicsDates[i] + d>> :
                           i \in 1..Len(sariDemographicsDates), d \in {0, 7 * 24}}

\* a call aggregateDemographicsData(bundesland, station, startDate, endDate)
CallAggregateDemographicsData ==
    /\ demoChart.state # "loading"
    /\ \E b \in SariBundeslandArgs, st \in SariStationArgs, sd \in DateArgs, ed \in DateArgs :
          sariCall' = [fn |-> "aggregateDemographicsData", bundesland |-> b, station |-> st,
                       startDate |-> sd, endDate |-> ed,
                       result |-> aggregateDemographicsData(sariDemographicsData, b, st, sd, ed)]
    /\ UNCHANGED <<tz, kwVars, callVars, loadVars, sariRawData, sariFilteredData, sariUI,
                   sariChart, demoVars>>

\* a call aggregateHeatmapData(bundesland, station, diagnose, startIdx, endIdx)
CallAggregateHeatmapData ==
    /\ demoChart.state # "loading"
    /\ \E b \in SariBundeslandArgs, st \in SariStationArgs, d \in HeatDiagnoseOptions,
          si \in 0..1, ei \in 0..1 :
          sariCall' = [fn |-> "aggregateHeatmapData", bundesland |-> b, station |-> st,
                       diagnose |-> d, startIdx |-> si, endIdx |-> ei,
                       kws |-> sariHeatmapKWs,
                       result |-> aggregateHeatmapData(sariDemographicsData, sariHeatmapKWs,
                                                       b, st, d, si, ei)]
    /\ UNCHANGED <<tz, kwVars, callVars, loadVars, sariRawData, sariFilteredData, sariUI,
                   sariChart, demoVars>>

NextAgg ==
    \/ LoadSmallSariData
    \/ LoadSariDataFails
    \/ LoadSmallSariDemographicsData
    \/ LoadSariDemographicsDataFails
    \/ HeatmapPoll
    \/ CallFilterSariData
    \/ CallFilterSariDataByStation
    \/ CallAggregateDemographicsData
    \/ CallAggregateHeatmapData

SpecAgg == InitAgg /\ [][NextAgg]_vars

(***************************************************************************)
(* The aggregation functions called between filter changes and rebuilds    *)
(***************************************************************************)
RECURSIVE ZeroFilledRow(_, _, _)
ZeroFilledRow(row, cols, i) ==
    IF i > Len(cols) THEN row
    ELSE ZeroFilledRow(IF MapHas(row, cols[i])
                       THEN MapPut(row, cols[i], OrZero(Get(row, cols[i])))
                       ELSE row,
                       cols, i + 1)

\* mutant: the loop stores row.X || 0 back into the row it reads
AfterRead_ZeroFilled(rows) ==
    [i \in 1..Len(rows) |-> ZeroFilledRow(rows[i], DemographicsNumericColumns, 1)]

\* a dataset after an aggregation function ran over it: `filtered` starts as
\* the dataset itself, filter() builds new arrays, the loops only read the
\* rows and sort() is applied to the new array of groups
AfterRead(rows) == rows

FrameSariTexts ==
    { SariHeader \o Newline \o SariLine(1, 2023, <<"W">>, <<"N">>, OddCounts) \o Newline,
      SariHeader \o Newline \o SariLine(1, 2023, <<"W">>, <<"N">>, OddCounts) \o Newline \o
        SariLine(2, 2023, <<"T">>, <<"I">>, PlainCounts) \o Newline }

FrameDemoTexts ==
    { DemoHeader \o Newline \o
        DemoLine(1, <<"W">>, <<"N">>, Young, <<"M">>, <<"1", "0", "0", "0">>, OddCounts) \o
        Newline,
      DemoHeader \o Newline \o
        DemoLine(1, <<"W">>, <<"N">>, Young, <<"M">>, <<"1", "0", "0", "0">>, OddCounts) \o
        Newline \o
        DemoLine(2, <<"T">>, <<"I">>, Old, <<"W">>, <<>>, PlainCounts) \o Newline,
      DemoHeader \o Newline \o
        DemoLine(1, <<"W">>, <<"N">>, <<"6", "0", "_", "6", "9">>, <<"M">>,
                 <<"1", "0", "0", "0">>, PlainCounts) \o
        Newline \o
        DemoLine(1, <<"W">>, <<"N">>, <<"6", "0">>, <<"6", "9", "_", "M">>,
                 <<"5", "0", "0">>, PlainCounts) \o Newline }

InitFrame == tz = 1 /\ KWIdle /\ CallIdle /\ LoadIdle /\ SariIdle /\ DemoIdle

LoadFrameSariData == LoadSariDataFrom(FrameSariTexts)

LoadFrameSariDemographicsData == LoadSariDemographicsDataFrom(FrameDemoTexts)

\* 'change' of the region or the station select of the SARI section, whose
\* listener is createSariChart
SariSelectChange ==
    /\ sariChart.state \notin {"loading", "error"}
    /\ \E b \in {AT, <<"W">>}, st \in {ALL, <<"N">>} :
          /\ sariUI' = [bundesland |-> b, station |-> st]
          /\ sariUI' # sariUI
    /\ sariRawData' = AfterRead(sariRawData)
    /\ sariFilteredData' = FilteredAfterChart(sariRawData, sariUI', sariFilteredData)
    /\ sariChart' = createSariChart(sariRawData, sariUI', sariFilteredData')
    /\ UNCHANGED <<tz, kwVars, callVars, loadVars, sariCall, demoVars>>

\* the (bundesland, station) arguments of the calls
FrameArgs == {<<AT, ALL>>, <<<<"W">>, <<"N">>>>}

FrameCallFilterSariData ==
    /\ sariChart.state # "loading"
    /\ \E a \in FrameArgs :
          sariCall' = [fn |-> "filterSariData", bundesland |-> a[1], station |-> a[2],
                       result |-> filterSariData(sariRawData, a[1], a[2])]
    /\ sariRawData' = AfterRead(sariRawData)
    /\ UNCHANGED <<tz, kwVars, callVars, loadVars, sariFilteredData, sariUI, sariChart,
                   demoVars>>

FrameCallFilterSariDataByStation ==
    /\ sariChart.state # "loading"
    /\ \E b \in {AT, <<"W">>} :
          sariCall' = [fn |-> "filterSariDataByStation", bundesland |-> b,
                       station |-> <<"N">>,
                       result |-> filterSariDataByStation(sariRawData, b, <<"N">>)]
    /\ sariRawData' = AfterRead(sariRawData)
    /\ UNCHANGED <<tz, kwVars, callVars, loadVars, sariFilteredData, sariUI, sariChart,
                   demoVars>>

FrameCallAggregateDemographicsData ==
    /\ DemoListening
    /\ \E a \in FrameArgs, d \in {<<>>, <<sariDemographicsDates[1]>>} :
          sariCall' = [fn |-> "aggregateDemographicsData", bundesland |-> a[1],
                       station |-> a[2], startDate |-> d, endDate |-> d,
                       result |-> aggregateDemographicsData(sariDemographicsData,
                                                            a[1], a[2], d, d)]
    /\ sariDemographicsData' = AfterRead(sariDemographicsData)
    /\ UNCHANGED <<tz, kwVars, callVars, loadVars, sariRawData, sariFilteredData, sariUI,
                   sariChart, sariDemographicsDates, sariHeatmapKWs, demoUI, demoChart,
                   heatUI, heatChart, heatTimer>>

FrameCallAggregateHeatmapData ==
    /\ HeatListening
    /\ \E a \in FrameArgs, ei \in {0, heatUI.max} :
          sariCall' = [fn |-> "aggregateHeatmapData", bundesland |-> a[1], station |-> a[2],
                       diagnose |-> ALL, startIdx |-> 0, endIdx |-> ei,
                       kws |-> sariHeatmapKWs,
                       result |-> aggregateHeatmapData(sariDemographicsData, sariHeatmapKWs,
                                                       a[1], a[2], ALL, 0, ei)]
    /\ sariDemographicsData' = AfterRead(sariDemographicsData)
    /\ UNCHANGED <<tz, kwVars, callVars, loadVars, sariRawData, sariFilteredData, sariUI,
                   sariChart, sariDemographicsDates, sariHeatmapKWs, demoUI, demoChart,
                   heatUI, heatChart, heatTimer>>

NextFrame ==
    \/ LoadFrameSariData
    \/ LoadFrameSariDemographicsData
    \/ HeatmapPoll
    \/ SariSelectChange
    \/ DemoBundeslandChange
    \/ DemoPer100kChange
    \/ HeatPer100kChange
    \/ FrameCallFilterSariData
    \/ FrameCallFilterSariDataByStation
    \/ FrameCallAggregateDemographicsData
    \/ FrameCallAggregateHeatmapData

SpecFrame == InitFrame /\ [][NextFrame]_vars

(***************************************************************************)
(* Specification of the pure functions: one call on one argument           *)
(***************************************************************************)
CarriageReturn == <<"\r">>

\* texts for parseCSV: those of the SARI endpoint, the empty text, a header
\* without any line, and a file with CR LF line ends and no final newline
CallSariTexts ==
    SariCsvTexts \cup
    { <<>>,
      SariHeader,
      SariHeader \o CarriageReturn \o Newline \o
        SariLine(1, 2023, <<"W">>, <<"N">>, PlainCounts) \o CarriageReturn \o Newline \o
        SariLine(2, 2023, <<"T">>, <<"I">>, OddCounts) }

\* a demographics line without the week number of its label, and one without
\* its last field
DemoLineNoWeek ==
    LET line == DemoLine(1, <<"W">>, <<"N">>, Old, <<"M">>, <<"7", "0", "0">>, PlainCounts)
    IN  SubSeq(line, 4, Len(line))

DemoLineShort ==
    LET line == DemoLine(2, <<"T">>, <<"N">>, Old, <<"M">>, <<"7", "0", "0">>, PlainCounts)
    IN  SubSeq(line, 1, Len(line) - 2)

CallDemoLines == DemoLines \cup {DemoLineNoWeek, DemoLineShort}

\* texts for parseDemographicsCSV
CallDemoTexts ==
    { DemoHeader \o JoinLines(lines) \o Newline :
        lines \in UNION { [1..n -> CallDemoLines] : n \in 0..MaxDemoRows } }

\* the traces of a payload: two location traces, one of them without type and
\* mode, a bar, an invisible trace, a trace without name, one without x, one
\* without y, a quartile band of Austria and a quartile band of Vienna
CallTraces ==
    { Trace(Oesterreich, TRUE, TRUE, "undefined", "undefined"),
      Trace(Wien, TRUE, TRUE, "scatter", "lines"),
      Trace(<<"P", "r", "o", "b", "e", "n">>, TRUE, TRUE, "bar", "undefined"),
      Trace(<<"G", "r", "a", "z">>, TRUE, TRUE, "scatter", "none"),
      Trace(<<>>, TRUE, TRUE, "scatter", "lines"),
      Trace(<<"L", "i", "n", "z">>, FALSE, TRUE, "scatter", "lines"),
      Trace(<<"E", "n", "n", "s">>, TRUE, FALSE, "scatter", "lines"),
      Trace(Quartile1Name, TRUE, TRUE, "scatter", "lines"),
      Trace(<<"1", ".", " ">> \o Quartil \o <<" ">> \o Wien, TRUE, TRUE, "scatter", "lines") }

\* a bar, an invisible trace and two line traces
FourTraces ==
    << Trace(<<"P", "r", "o", "b", "e", "n">>, TRUE, TRUE, "bar", "undefined"),
       Trace(<<"G", "r", "a", "z">>, TRUE, TRUE, "scatter", "none"),
       Trace(Oesterreich, TRUE, TRUE, "scatter", "lines"),
       Trace(Wien, TRUE, TRUE, "scatter", "lines") >>

\* payloads for extractAllTraces: without data, with up to MaxTraces traces,
\* and the four traces
CallPayloads ==
    { [hasData |-> FALSE, data |-> <<>>], [hasData |-> TRUE, data |-> FourTraces] } \cup
    { [hasData |-> TRUE, data |-> d] :
        d \in UNION { [1..n -> CallTraces] : n \in 0..MaxTraces } }

\* the values of a colour channel and the amounts lightenColor is called with
\* (the program calls it with 0.4)
ChannelValues == {0, 1, 116, 255}

Amounts == {<<0, 1>>, <<1, 4>>, <<2, 5>>, <<1, 2>>, <<1, 1>>}

\* the colour "#rrggbb" of three channels, in lower or in upper case
HexColor(r, g, b, chars) ==
    <<"#", chars[(r \div 16) + 1], chars[(r % 16) + 1],
           chars[(g \div 16) + 1], chars[(g % 16) + 1],
           chars[(b \div 16) + 1], chars[(b % 16) + 1]>>

\* colours with '#' in lower and in upper case, and colours without '#'
CallColors ==
    LET withHash == { HexColor(r, g, b, chars) :
                        r \in ChannelValues, g \in ChannelValues, b \in ChannelValues,
                        chars \in {HexChars, UpperHexChars} }
    IN  withHash \cup { Tail(HexColor(r, r, b, HexChars)) :
                          r \in ChannelValues, b \in ChannelValues }

CallInputs ==
    { [fn |-> "lightenColor", arg |-> c, amount |-> a] : c \in CallColors, a \in Amounts } \cup
    { [fn |-> "parseCSV", arg |-> t] : t \in CallSariTexts } \cup
    { [fn |-> "parseDemographicsCSV", arg |-> t] : t \in CallDemoTexts } \cup
    { [fn |-> "extractAllTraces", arg |-> p] : p \in CallPayloads } \cup
    { [fn |-> "extractAllTraces_v2", arg |-> p] : p \in CallPayloads }

InitCall ==
    /\ tz \in DemoTimeZones
    /\ fnInput \in CallInputs
    /\ fnResult = <<>>
    /\ KWIdle /\ LoadIdle /\ SariIdle /\ DemoIdle

\* the call fn(arg) returns value
Returns(fn, value) ==
    /\ fnInput.fn = fn
    /\ fnResult = <<>>
    /\ fnResult' = <<value>>
    /\ UNCHANGED <<tz, kwVars, fnInput, loadVars, sariVars, demoVars>>

CallParseCSV == Returns("parseCSV", parseCSV(fnInput.arg, tz))

CallParseDemographicsCSV ==
    Returns("parseDemographicsCSV", parseDemographicsCSV(fnInput.arg, tz))

CallExtractAllTraces == Returns("extractAllTraces", extractAllTraces(fnInput.arg))

CallExtractAllTraces_v2 == Returns("extractAllTraces_v2", extractAllTraces_v2(fnInput.arg))

CallLightenColor == Returns("lightenColor", lightenColor(fnInput.arg, fnInput.amount))

NextCall ==
    \/ CallLightenColor
    \/ CallParseCSV
    \/ CallParseDemographicsCSV
    \/ CallExtractAllTraces
    \/ CallExtractAllTraces_v2

SpecCall == InitCall /\ [][NextCall]_vars

(***************************************************************************)
(* The three SARI sections of one page: both loaders and the polling timer *)
(***************************************************************************)
\* demographics files of up to MaxDemoRows lines of two age groups
PageDemoTexts ==
    { DemoHeader \o JoinLines(lines) \o Newline :
        lines \in UNION { [1..n ->
            { DemoLine(1, <<"W">>, <<"N">>, Young, <<"M">>, <<"1", "0", "0", "0">>, PlainCounts),
              DemoLine(2, <<"W">>, <<"I">>, Old, <<"W">>, <<>>, PlainCounts) }] :
                 n \in 0..MaxDemoRows } }

LoadPageSariDemographicsData == LoadSariDemographicsDataFrom(PageDemoTexts)

NextPage ==
    \/ LoadSmallSariData
    \/ LoadSariDataFails
    \/ LoadPageSariDemographicsData
    \/ LoadSariDemographicsDataFails
    \/ HeatmapPoll
    \/ HeatmapPollWaits

\* the guard of HeatmapPoll: a tick of the timer would initialise the heatmap
HeatmapDue ==
    /\ heatTimer.state = "running"
    /\ heatTimer.inits < MaxInits
    /\ Len(sariDemographicsData) > 0

\* every fetch is answered or fails, and the interval timer keeps ticking.
\* Both outcomes of a fetch are enabled exactly while its section is loading,
\* so weak fairness of the failing outcome says that the fetch ends one way
\* or the other. HeatmapPoll is enabled exactly when HeatmapDue holds and
\* ends it, so its weak fairness is []<>~HeatmapDue.
SpecPageFair ==
    /\ InitDemo
    /\ [][NextPage]_vars
    /\ WF_vars(LoadSariDataFails)
    /\ WF_vars(LoadSariDemographicsDataFails)
    /\ []<>~HeatmapDue

(***************************************************************************)
(* The SARI section of the JSON data source: the loader receives the rows  *)
(* as JSON objects and converts their date strings                         *)
(***************************************************************************)
\* what new Date(s) is for a string that is no date
InvalidDate == [type |-> "invalid date", val |-> 0]

IsISODate(s) ==
    /\ Len(s) = 10
    /\ s[5] = "-" /\ s[8] = "-"
    /\ \A i \in {1, 2, 3, 4, 6, 7, 9, 10} : IsDigit(s[i])

\* new Date(v) for a non-empty string v
NewDateOf(v) ==
    IF IsISODate(v.val) THEN DateVal(DateFromISO(v.val)) ELSE InvalidDate

\* if (row.date) row.date = new Date(row.date)
ConvertDate(row) ==
    IF Truthy(Get(row, K_date)) THEN MapPut(row, K_date, NewDateOf(Get(row, K_date)))
    ELSE row

\* response.data || [], then the forEach that converts the dates
RowsOfResponse(response) ==
    LET data == IF response.hasData THEN response.data ELSE <<>>
    IN  [i \in 1..Len(data) |-> ConvertDate(data[i])]

\* row.date.toISOString() throws for a row whose date is undefined, null, ""
\* (TypeError) or an Invalid Date (RangeError)
ToISOStringThrows(row) == Get(row, K_date).type # "date"

\* filtered.forEach(row => { const dateKey = row.date.toISOString()... })
GroupingThrows(filtered) == \E i \in 1..Len(filtered) : ToISOStringThrows(filtered[i])

\* createSariChart throws out of filterSariDataByStation (station 'ALL') or
\* out of filterSariData
ChartThrows(data, ui) ==
    IF ui.station = ALL
    THEN \/ GroupingThrows(FilterEq(RegionFilter(data, K_BUNDESLAND, ui.bundesland),
                                    K_STATION, <<"N">>))
         \/ GroupingThrows(FilterEq(RegionFilter(data, K_BUNDESLAND, ui.bundesland),
                                    K_STATION, <<"I">>))
    ELSE GroupingThrows(StationFilter(RegionFilter(data, K_BUNDESLAND, ui.bundesland),
                                      ui.station))

\* a row of the JSON file; date is <<>> (no such property) or <<value>>
JsonRow(week, bundesland, station, covid, date) ==
    << <<K_KW, Str(KWLabel(week, 2023))>>, <<K_BUNDESLAND, Str(bundesland)>>,
       <<K_STATION, Str(station)>>, <<K_COVID, Num(covid)>>, <<K_INFLUENZA, Num(0)>>,
       <<K_RSV, Num(1)>>, <<K_PNEUMOKOKKEN, Num(0)>>, <<K_SONSTIGE, Num(2)>> >> \o
    (IF date = <<>> THEN <<>> ELSE << <<K_date, date[1]>> >>)

Jan2 == <<"2", "0", "2", "3", "-", "0", "1", "-", "0", "2">>

Jan9 == <<"2", "0", "2", "3", "-", "0", "1", "-", "0", "9">>

\* rows with a date, without the property, with null, with "" and with a
\* string that is no date
JsonRows ==
    { JsonRow(1, <<"W">>, <<"N">>, 3, <<Str(Jan2)>>),
      JsonRow(1, <<"W">>, <<"I">>, 1, <<Str(Jan2)>>),
      JsonRow(2, <<"T">>, <<"N">>, 5, <<Str(Jan9)>>),
      JsonRow(2, <<"T">>, <<"I">>, 4, <<>>),
      JsonRow(2, <<"W">>, <<"N">>, 2, <<Null>>),
      JsonRow(1, <<"T">>, <<"N">>, 6, <<Str(<<>>)>>),
      JsonRow(2, <<"W">>, <<"I">>, 7, <<Str(<<"n", "/", "a">>)>>) }

\* the bodies the endpoint may answer with: an object without data, and
\* objects with up to MaxSariRows rows
JsonResponses ==
    { [hasData |-> FALSE, data |-> <<>>] } \cup
    { [hasData |-> TRUE, data |-> rows] :
        rows \in UNION { [1..n -> JsonRows] : n \in 0..MaxSariRows } }

InitJson == tz = 1 /\ KWIdle /\ CallIdle /\ LoadIdle /\ SariIdle /\ DemoIdle

\* createSariChart called with the selects at ui: sariFilteredData, the
\* section and the record of the call
ChartCall(data, ui, threwState) ==
    IF ChartThrows(data, ui)
    THEN /\ sariFilteredData' = sariFilteredData
         /\ sariChart' = threwState
         /\ sariCall' = [fn |-> "createSariChart", bundesland |-> ui.bundesland,
                         station |-> ui.station, threw |-> TRUE]
    ELSE /\ sariFilteredData' = FilteredAfterChart(data, ui, sariFilteredData)
         /\ sariChart' = createSariChart(data, ui, sariFilteredData')
         /\ sariCall' = [fn |-> "createSariChart", bundesland |-> ui.bundesland,
                         station |-> ui.station, threw |-> FALSE]

\* loadSariData of the JSON variant when fetchData returned a body: no row is
\* the error message; an exception of createSariChart is caught and gives the
\* error message as well, after initSariUI has attached the listeners
LoadSariDataJson ==
    /\ sariChart.state = "loading"
    /\ \E response \in JsonResponses : sariRawData' = RowsOfResponse(response)
    /\ IF Len(sariRawData') = 0
       THEN /\ sariFilteredData' = sariFilteredData
            /\ sariChart' = [state |-> "error"]
            /\ sariCall' = sariCall
       ELSE ChartCall(sariRawData', sariUI, [state |-> "error"])
    /\ UNCHANGED <<tz, kwVars, callVars, loadVars, sariUI, demoVars>>

\* loadSariData of the JSON variant when fetchData threw
LoadSariDataJsonFails ==
    /\ sariChart.state = "loading"
    /\ sariChart' = [state |-> "error"]
    /\ UNCHANGED <<tz, kwVars, callVars, loadVars, sariRawData, sariFilteredData, sariCall,
                   sariUI, demoVars>>

\* 'change' of a select of the SARI section once initSariUI has run: the
\* listener createSariChart; an exception leaves the section as it was
SariSelectChangeJson ==
    /\ sariChart.state # "loading"
    /\ Len(sariRawData) > 0
    /\ \E b \in SariBundeslandArgs, st \in SariStationArgs :
          /\ sariUI' = [bundesland |-> b, station |-> st]
          /\ sariUI' # sariUI
    /\ ChartCall(sariRawData, sariUI', sariChart)
    /\ UNCHANGED <<tz, kwVars, callVars, loadVars, sariRawData, demoVars>>

NextJson ==
    \/ LoadSariDataJson
    \/ LoadSariDataJsonFails
    \/ SariSelectChangeJson

SpecJson == InitJson /\ [][NextJson]_vars

(***************************************************************************)
(* Claims about the wastewater load                                        *)
(***************************************************************************)
\* the sources whose fetch succeeded and yielded at least one trace
SucceededWithTraces ==
    {s \in Sources : /\ fetchPc[s] = "done"
                     /\ \E i \in 1..Len(fetched[s][1].data) :
                           /\ fetched[s][1].hasData
                           /\ IsLocationTrace(fetched[s][1].data[i])}

\* C1: for every combination of success and failure of the three fetches and
\* every completion order, loadAllData never rejects, at every moment results
\* holds exactly the sources whose fetch succeeded with at least one trace (a
\* failing source removes or prevents no entry), and that is what it resolves
\* with.
C1_LoadIsolated ==
    /\ loadPc # "rejected"
    /\ \A s \in Sources : fetchPc[s] # "rejected"
    /\ loadPc = "running" => KeySet(results) = SucceededWithTraces
    /\ loadPc = "resolved" =>
          /\ KeySet(allData) = SucceededWithTraces
          /\ \A s \in KeySet(allData) :
                MapGet(allData, s) = extractAllTraces(fetched[s][1])

\* C1 witness: the load resolved although one source failed, one returned no
\* trace and one returned traces; only the last one is in the result
C1_Witness ==
    /\ loadPc = "resolved"
    /\ fetchPc["influenza"] = "failed"
    /\ fetchPc["sarscov2"] = "done" /\ ~fetched["sarscov2"][1].hasData
    /\ KeySet(allData) = {"rsv"}

(***************************************************************************)
(* Claims about the SARI hospital-admission aggregation                    *)
(***************************************************************************)
RECURSIVE SumSeq(_)
SumSeq(q) == IF q = <<>> THEN 0 ELSE Head(q) + SumSeq(Tail(q))

\* the number a count field stands for: an empty or absent field counts as 0
NumericValue(v) == IF v.type = "number" THEN v.val ELSE 0

\* the rows of the loaded dataset that pass the region and the station filter
PassingRows(bundesland, station) ==
    SelectSeq(sariRawData,
              LAMBDA row : /\ bundesland = AT \/ Get(row, K_BUNDESLAND) = Str(bundesland)
                           /\ station = ALL \/ Get(row, K_STATION) = Str(station))

RowDates(rows) == {Get(rows[i], K_date).val : i \in 1..Len(rows)}

\* the sum of a diagnosis field over the rows of one date
FieldTotal(rows, diagnose, date) ==
    SumSeq([i \in 1..Len(rows) |->
              IF Get(rows[i], K_date).val = date
              THEN NumericValue(Get(rows[i], DiagnoseKey(diagnose)))
              ELSE 0])

DiagnoseSet == {Diagnosen[i] : i \in 1..Len(Diagnosen)}

\* what a result of filterSariData reports for a date: 0 without an entry
ReportedValue(result, diagnose, date) ==
    SumSeq([i \in 1..Len(result) |->
              IF result[i].date = date THEN NumericValue(result[i][diagnose]) ELSE 0])

\* result is the aggregation of rows: one entry per date, ascending, field sums
IsAggregationOf(result, rows) ==
    /\ {result[i].date : i \in 1..Len(result)} = RowDates(rows)
    /\ Len(result) = Cardinality(RowDates(rows))
    /\ \A i, j \in 1..Len(result) : i < j => result[i].date < result[j].date
    /\ \A i \in 1..Len(result) : \A d \in DiagnoseSet :
          result[i][d] = Num(FieldTotal(rows, d, result[i].date))

\* C2: for every loaded dataset and every (bundesland, station), filterSariData
\* (and filterSariDataByStation) returns exactly one entry per distinct date of
\* the rows passing the region and station filters, in strictly ascending date
\* order, each diagnosis field being the sum of that field over the passing
\* rows of that date.
C2_OneEntryPerDateWithSums ==
    sariCall.fn \in {"filterSariData", "filterSariDataByStation"} =>
        IsAggregationOf(sariCall.result, PassingRows(sariCall.bundesland, sariCall.station))

\* C2 witness: filterSariData returned one entry that sums two passing rows of
\* the same date
C2_Witness ==
    /\ sariCall.fn = "filterSariData"
    /\ Len(PassingRows(sariCall.bundesland, sariCall.station)) = 2
    /\ Len(sariCall.result) = 1
    /\ sariCall.result[1].COVID = Num(2)

\* the region codes the rows of the loaded dataset carry
RegionCodes == {Get(sariRawData[i], K_BUNDESLAND).val : i \in 1..Len(sariRawData)}

RECURSIVE SumOverRegions(_, _, _, _)
SumOverRegions(regions, station, diagnose, date) ==
    IF regions = {} THEN 0
    ELSE LET r == CHOOSE x \in regions : TRUE
         IN  ReportedValue(filterSariData(sariRawData, r, station), diagnose, date)
             + SumOverRegions(regions \ {r}, station, diagnose, date)

PassesSelection(row, ui) ==
    /\ ui.bundesland = AT \/ Get(row, K_WOHNORT) = Str(ui.bundesland)
    /\ ui.station = ALL \/ Get(row, K_STATION) = Str(ui.station)

\* the rows the demographics aggregation took: selection and date range
DemoSelected ==
    SelectSeq(sariDemographicsData,
              LAMBDA row : /\ PassesSelection(row, demoUI)
                           /\ Get(row, K_date).val >= sariDemographicsDates[demoUI.start + 1]
                           /\ Get(row, K_date).val <= sariDemographicsDates[demoUI.end + 1])

\* the total of a diagnosis over the rows of an age group and gender
BucketTotal(rows, ageGroup, gender, diagnose) ==
    SumSeq([i \in 1..Len(rows) |->
              IF Get(rows[i], K_ALTERSGRUPPE) = ageGroup /\ Get(rows[i], K_GESCHLECHT) = gender
              THEN NumericValue(Get(rows[i], DiagnoseKey(diagnose)))
              ELSE 0])

\* the rows of the heatmap cell (kw, ag) under the selection of the heatmap
\* controls (the sliders of the heatmap stay at the full range)
CellRows(kw, ag) ==
    SelectSeq(sariDemographicsData,
              LAMBDA row : /\ PassesSelection(row, heatUI)
                           /\ Get(row, K_KW) = Str(kw)
                           /\ Get(row, K_ALTERSGRUPPE) = Str(ag))

\* the total of the selected diagnosis (all five for 'ALL') over rows
CellTotal(rows) ==
    SumSeq([i \in 1..Len(rows) |->
              IF heatUI.diagnose = ALL
              THEN SumSeq([d \in 1..Len(Diagnosen) |->
                             NumericValue(Get(rows[i], DiagnoseKey(Diagnosen[d])))])
              ELSE NumericValue(Get(rows[i], heatUI.diagnose))])

\* sum and number of the population samples of rows
PopulationSum(rows) == SumSeq([i \in 1..Len(rows) |-> NumericValue(Get(rows[i], K_BEV_ZAHL))])

PopulationSamples(rows) ==
    Cardinality({i \in 1..Len(rows) : NumericValue(Get(rows[i], K_BEV_ZAHL)) # 0})

\* C4: with the per-100k toggle on, every bucket with total count C and
\* average population P > 0 is reported as (C / P) * 100000, in the
\* demographics chart and in the heatmap.
C4_Per100kValue ==
    /\ (demoChart.state = "chart" /\ demoUI.per100k) =>
          \A i \in 1..Len(demoChart.items) :
             LET item == demoChart.items[i]
                 C == BucketTotal(DemoSelected, item.ageGroup, item.gender, item.diagnose)
             IN  RatPositive(item.population) =>
                    RatEq(item.count, <<C * 100000 * item.population[2], item.population[1]>>)
    /\ (heatChart.state = "chart" /\ heatUI.per100k) =>
          \A a \in 1..Len(heatChart.y), k \in 1..Len(heatChart.x) :
             LET rows == CellRows(heatChart.x[k], heatChart.y[a])
             IN  (PopulationSamples(rows) > 0 /\ PopulationSum(rows) > 0) =>
                    RatEq(heatChart.z[a][k],
                          <<CellTotal(rows) * 100000 * PopulationSamples(rows),
                            PopulationSum(rows)>>)

\* C4 witness: both charts show rates: the demographics chart 1 admission per
\* 1000 inhabitants as 100 per 100000, the heatmap a cell with a rate above 0
C4_Witness ==
    /\ demoChart.state = "chart" /\ demoUI.per100k
    /\ \E i \in 1..Len(demoChart.items) :
          /\ demoChart.items[i].population = <<1000, 1>>
          /\ RatEq(demoChart.items[i].count, Rat(100))
    /\ heatChart.state = "chart" /\ heatUI.per100k
    /\ \E a \in 1..Len(heatChart.y), k \in 1..Len(heatChart.x) :
          /\ PopulationSum(CellRows(heatChart.x[k], heatChart.y[a])) > 0
          /\ RatPositive(heatChart.z[a][k])

\* C5: with the per-100k toggle on, every bucket whose average population is
\* 0, a bucket without any population sample included, is reported as 0, in
\* the demographics chart and in the heatmap.
C5_ZeroPopulationIsZero ==
    /\ (demoChart.state = "chart" /\ demoUI.per100k) =>
          \A i \in 1..Len(demoChart.items) :
             ~RatPositive(demoChart.items[i].population) =>
                 RatEq(demoChart.items[i].count, Rat(0))
    /\ (heatChart.state = "chart" /\ heatUI.per100k) =>
          \A a \in 1..Len(heatChart.y), k \in 1..Len(heatChart.x) :
             PopulationSamples(CellRows(heatChart.x[k], heatChart.y[a])) = 0 =>
                 RatEq(heatChart.z[a][k], Rat(0))

\* row i of rows carries the population sample of its (age group, gender,
\* week) triple: it has a population and no earlier row of the triple has one
IsFirstSample(rows, i) ==
    /\ NumericValue(Get(rows[i], K_BEV_ZAHL)) # 0
    /\ \A j \in 1..(i - 1) :
          ~ ( /\ Get(rows[j], K_ALTERSGRUPPE) = Get(rows[i], K_ALTERSGRUPPE)
              /\ Get(rows[j], K_GESCHLECHT) = Get(rows[i], K_GESCHLECHT)
              /\ Get(rows[j], K_KW) = Get(rows[i], K_KW)
              /\ NumericValue(Get(rows[j], K_BEV_ZAHL)) # 0 )

\* the indices of the one-per-week samples of an (age group, gender) pair
PairSamples(rows, ageGroup, gender) ==
    {i \in 1..Len(rows) : /\ Get(rows[i], K_ALTERSGRUPPE) = ageGroup
                          /\ Get(rows[i], K_GESCHLECHT) = gender
                          /\ IsFirstSample(rows, i)}

\* the rows of a pair that have a population at all
PairPopulated(rows, ageGroup, gender) ==
    {i \in 1..Len(rows) : /\ Get(rows[i], K_ALTERSGRUPPE) = ageGroup
                          /\ Get(rows[i], K_GESCHLECHT) = gender
                          /\ NumericValue(Get(rows[i], K_BEV_ZAHL)) # 0}

SampleSum(rows, samples) ==
    SumSeq([i \in 1..Len(rows) |->
              IF i \in samples THEN NumericValue(Get(rows[i], K_BEV_ZAHL)) ELSE 0])

\* C6: in aggregateDemographicsData at most one row of every (age group,
\* gender, week) triple contributes its BEV_ZAHL to the population of the
\* (age group, gender) pair, however many filtered rows share the triple, and
\* the population reported for a pair is the mean of these one-per-week
\* samples (0 without a sample).
C6_PopulationOncePerWeek ==
    demoChart.state = "chart" =>
        \A i \in 1..Len(demoChart.items) :
           LET item    == demoChart.items[i]
               samples == PairSamples(DemoSelected, item.ageGroup, item.gender)
           IN  IF samples = {} THEN item.population = Rat(0)
               ELSE item.population = <<SampleSum(DemoSelected, samples), Cardinality(samples)>>

\* C6 witness: two filtered rows of one triple carry different populations and
\* the pair is reported with the population of the first of them
C6_Witness ==
    /\ demoChart.state = "chart"
    /\ \E i \in 1..Len(demoChart.items) :
          LET item == demoChart.items[i]
          IN  /\ Cardinality(PairPopulated(DemoSelected, item.ageGroup, item.gender)) = 2
              /\ Cardinality(PairSamples(DemoSelected, item.ageGroup, item.gender)) = 1
              /\ item.population \in {<<1000, 1>>, <<3000, 1>>}

\* the position of the row's week in the list of distinct weeks (0-based)
WeekPosition(row) ==
    CHOOSE i \in 0..(Len(sariDemographicsDates) - 1) :
        sariDemographicsDates[i + 1] = DateFromISO(ISODateString(Get(row, K_date).val))

\* the selected rows whose week lies at the slider positions start..end
RowsOfSliderRange ==
    SelectSeq(sariDemographicsData,
              LAMBDA row : /\ PassesSelection(row, demoUI)
                           /\ WeekPosition(row) >= demoUI.start
                           /\ WeekPosition(row) <= demoUI.end)

\* C7: for slider indices s <= e into the sorted list of distinct weeks, the
\* aggregation started by createSariDemographicsChart counts exactly the rows
\* whose week lies at positions s..e, both ends included, and no other row.
C7_SliderRangeInclusive ==
    (DemoListening /\ demoUI.start <= demoUI.end) =>
        demoChart = DemographicsChartOf(AggregateFiltered(RowsOfSliderRange), demoUI.per100k)

(***************************************************************************)
(* Claims about empty selections                                           *)
(***************************************************************************)
\* the demographics rows that pass the filters of the recorded call of
\* aggregateDemographicsData
CallDemoPassing ==
    SelectSeq(sariDemographicsData,
              LAMBDA row : /\ PassesSelection(row, sariCall)
                           /\ (sariCall.startDate # <<>> /\ sariCall.endDate # <<>>) =>
                                 /\ Get(row, K_date).val >= sariCall.startDate[1]
                                 /\ Get(row, K_date).val <= sariCall.endDate[1])

\* the 0-based position of a label in the list of weeks the call saw
\* (sariHeatmapKWs at the time of the call), -1 when it is not in the list
KWPosition(kw) ==
    IF \E i \in 1..Len(sariCall.kws) : sariCall.kws[i] = kw
    THEN (CHOOSE i \in 1..Len(sariCall.kws) : sariCall.kws[i] = kw) - 1
    ELSE -1

\* the position a slider index stands for: -1 outside the list
IndexPosition(idx) == IF idx < Len(sariCall.kws) THEN idx ELSE -1

\* the demographics rows that pass the filters of the recorded call of
\* aggregateHeatmapData
CallHeatPassing ==
    SelectSeq(sariDemographicsData,
              LAMBDA row : /\ PassesSelection(row, sariCall)
                           /\ Len(sariCall.kws) > 0 =>
                                 /\ KWPosition(Get(row, K_KW).val) >= IndexPosition(sariCall.startIdx)
                                 /\ KWPosition(Get(row, K_KW).val) <= IndexPosition(sariCall.endIdx))

\* C8: whenever no row passes the filters, an empty loaded dataset included,
\* filterSariData, filterSariDataByStation, aggregateDemographicsData and
\* aggregateHeatmapData return an empty collection, for every filter argument.
C8_EmptySelectionEmptyResult ==
    /\ (/\ sariCall.fn \in {"filterSariData", "filterSariDataByStation"}
        /\ PassingRows(sariCall.bundesland, sariCall.station) = <<>>)
          => sariCall.result = <<>>
    /\ (sariCall.fn = "aggregateDemographicsData" /\ CallDemoPassing = <<>>)
          => sariCall.result = <<>>
    /\ (sariCall.fn = "aggregateHeatmapData" /\ CallHeatPassing = <<>>)
          => sariCall.result = <<>>

\* C8 witness: the demographics file has rows, the heatmap is set up, and
\* aggregateHeatmapData was called for a station no row has
C8_Witness ==
    /\ Len(sariDemographicsData) > 0
    /\ sariCall.fn = "aggregateHeatmapData"
    /\ Len(sariCall.kws) > 0
    /\ sariCall.bundesland = AT
    /\ sariCall.station = <<"I">>
    /\ sariCall.startIdx = 0 /\ sariCall.endIdx = 0
    /\ sariCall.result = <<>>

(***************************************************************************)
(* Claims about the calendar-week functions                                *)
(***************************************************************************)
\* day number of the Monday of the week (Monday..Sunday) that contains day d;
\* day 4 (1970-01-05) was a Monday
MondayOfWeekOf(d) == CHOOSE m \in (d - 6)..d : m % 7 = 4

\* C9: for every year Y and week w in 1..53, parseKW("w. KW Y") is local
\* midnight of the Monday of the week containing January 4th of Y, advanced by
\* (w-1)*7 days; it is always a Monday; "19. KW 2023" gives 2023-05-08 and
\* "1. KW 2023" gives 2023-01-02.
C9_ParseKWMonday ==
    \A y \in MinYear..MaxYear, w \in 1..53 :
        kwString = KWLabel(w, y) =>
            /\ Len(kwDate) = 1
            /\ (kwDate[1] + tz) % 24 = 0
            /\ LocalDay(kwDate[1], tz) % 7 = 4
            /\ LocalDay(kwDate[1], tz)
                 = MondayOfWeekOf(DaysFromCivil(y, 1, 4)) + (w - 1) * 7
            /\ (w = 19 /\ y = 2023) =>
                 CivilFromDays(LocalDay(kwDate[1], tz)) = <<2023, 5, 8>>
            /\ (w = 1 /\ y = 2023) =>
                 CivilFromDays(LocalDay(kwDate[1], tz)) = <<2023, 1, 2>>

\* C9 witness: parseKW was called on "19. KW 2023" and returned 2023-05-08
C9_Witness ==
    /\ kwString = <<"1", "9", ".", " ", "K", "W", " ", "2", "0", "2", "3">>
    /\ kwDate = <<DaysFromCivil(2023, 5, 8) * 24 - tz>>

\* C10: whenever the Monday returned by parseKW("w. KW Y") lies inside
\* calendar year Y, formatDateAsKW of that Monday is the label "w. KW Y" again.
C10_RoundTrip ==
    \A y \in MinYear..MaxYear, w \in 1..53 :
        ( /\ kwString = KWLabel(w, y)
          /\ kwDate # <<>>
          /\ kwLabel # <<>>
          /\ getFullYear(kwDate[1], tz) = y )
        => kwLabel = kwString

\* s is "<week>. KW <year>": a week in 1..53 without leading zero, a year of
\* exactly four digits, and nothing before or after
IsStrictLabel(s) ==
    \E w \in 1..53 :
        LET p == NumToStr(w) \o <<".", " ", "K", "W", " ">>
        IN  /\ Len(s) = Len(p) + 4
            /\ SubSeq(s, 1, Len(p)) = p
            /\ \A i \in (Len(p) + 1)..Len(s) : IsDigit(s[i])

\* C11: parseKW returns null for every string that is not "<week>. KW <year>"
\* with a week in 1..53 and a year of four digits (text before or after it,
\* week 0 or above 53, a year not of four digits), and returns a date only
\* for the strings that are.
C11_NullUnlessStrictLabel ==
    kwString # <<>> => (kwDate # <<>> <=> IsStrictLabel(kwString))

\* number of ISO-8601 weeks of year y: 53 when January 1st or December 31st
\* is a Thursday, else 52
ISOWeeksInYear(y) ==
    IF \/ (DaysFromCivil(y, 1, 1) + 4) % 7 = 4
       \/ (DaysFromCivil(y, 12, 31) + 4) % 7 = 4
    THEN 53 ELSE 52

\* the (week, year) pairs other than (w, y) whose label parseKW maps to date
SameDatePairs(w, y, date, weeksOf(_)) ==
    {p \in (1..53) \X (MinYear..MaxYear) :
        /\ p # <<w, y>>
        /\ p[1] <= weeksOf(p[2])
        /\ parseKW(KWLabel(p[1], p[2]), tz) = date}

AnyWeek(y) == 53

\* C12 (as stated): for any two different (week, year) pairs with week in
\* 1..53, parseKW returns two different dates.
C12_OneToOne ==
    \A y \in MinYear..MaxYear, w \in 1..53 :
        (kwString = KWLabel(w, y) /\ kwDate # <<>>)
        => SameDatePairs(w, y, kwDate, AnyWeek) = {}

\* C12 (amended): for any two different (week, year) pairs whose week exists
\* in its year (week <= number of ISO weeks of the year), parseKW returns two
\* different dates.
C12_OneToOneOnExistingWeeks ==
    \A y \in MinYear..MaxYear : \A w \in 1..ISOWeeksInYear(y) :
        (kwString = KWLabel(w, y) /\ kwDate # <<>>)
        => SameDatePairs(w, y, kwDate, ISOWeeksInYear) = {}

\* C12 witness: parseKW was called on "52. KW 2022", the last week of a year
\* of 52 weeks, and returned 2022-12-26, one week before what it returns for
\* "1. KW 2023"
C12_Witness ==
    /\ kwString = KWLabel(52, 2022)
    /\ kwDate = <<DaysFromCivil(2022, 12, 26) * 24 - tz>>
    /\ parseKW(KWLabel(1, 2023), tz) = <<DaysFromCivil(2023, 1, 2) * 24 - tz>>

(***************************************************************************)
(* Claims about the CSV parsers                                            *)
(***************************************************************************)
\* the lines of a text as the parsers see them
LinesOf(csvText) == split(trim(csvText), "\n")

\* the text of the field under column key of a line, <<>> when the header
\* has no such column
FieldUnder(header, fields, key) ==
    IF \E j \in 1..Len(header) : header[j] = key
    THEN fields[CHOOSE j \in 1..Len(header) : header[j] = key]
    ELSE <<>>

\* line i of lines is a data line with as many fields as the header and a KW
\* field that parseKW resolves to a date
IsDataLine(lines, i) ==
    LET header == Fields(lines[1])
        fields == Fields(lines[i])
    IN  /\ Len(fields) = Len(header)
        /\ parseKW(FieldUnder(header, fields, K_KW), tz) # <<>>

\* the indices of the data lines, ascending
DataLineIndices(lines) ==
    SelectSeq([k \in 1..(Len(lines) - 1) |-> k + 1], LAMBDA i : IsDataLine(lines, i))

\* what the parser named fn returns for the header followed by one line alone
RecordOfLine(fn, header, line) ==
    LET text == header \o Newline \o line
    IN  IF fn = "parseCSV" THEN parseCSV(text, tz) ELSE parseDemographicsCSV(text, tz)

\* record is the record of the fields of line: every column holds the text of
\* its field, or a number when the column is numeric, and date holds the Date
\* of the KW field
IsRecordOf(record, header, fields) ==
    /\ \A j \in 1..Len(header) :
          \/ Get(record, header[j]) = Str(fields[j])
          \/ /\ \E c \in 1..Len(DemographicsNumericColumns) :
                    DemographicsNumericColumns[c] = header[j]
             /\ Get(record, header[j]).type = "number"
    /\ Get(record, K_date)
         = DateVal(parseKW(FieldUnder(header, fields, K_KW), tz)[1])

\* C13: parseCSV and parseDemographicsCSV return, in input line order, exactly
\* the data lines that have as many ';'-separated fields as the header and
\* whose KW field parseKW resolves to a date; every other line is dropped and
\* does not change the record of any remaining line (each record is the one
\* the line gives when it is the only line of the file).
C13_ExactlyDataLines ==
    (fnInput.fn \in {"parseCSV", "parseDemographicsCSV"} /\ fnResult # <<>>) =>
        LET lines == LinesOf(fnInput.arg)
            kept  == DataLineIndices(lines)
        IN  /\ Len(fnResult[1]) = Len(kept)
            /\ \A k \in 1..Len(kept) :
                  /\ IsRecordOf(fnResult[1][k], Fields(lines[1]), Fields(lines[kept[k]]))
                  /\ <<fnResult[1][k]>> = RecordOfLine(fnInput.fn, lines[1], lines[kept[k]])

\* C13 witness: a file whose first line has no week number and whose second
\* line is a data line was parsed into the one record of the second line
C13_Witness ==
    /\ fnInput.fn = "parseDemographicsCSV"
    /\ fnInput.arg = DemoHeader \o Newline \o DemoLineNoWeek \o Newline \o
                     DemoLine(2, <<"W">>, <<"I">>, Old, <<"W">>, <<>>, PlainCounts) \o Newline
    /\ fnResult # <<>>
    /\ Len(fnResult[1]) = 1
    /\ Get(fnResult[1][1], K_KW) = Str(KWLabel(2, 2023))

\* the numeric columns of the parser named fn
NumericColumnsOf(fn) ==
    IF fn = "parseCSV" THEN NumericColumns ELSE DemographicsNumericColumns

\* C14: in every record parseCSV and parseDemographicsCSV return, each of
\* COVID, INFLUENZA, RSV, PNEUMOKOKKEN, SONSTIGE, AUFNAHMEN (and BEV_ZAHL for
\* parseDemographicsCSV) that appears in the header holds an integer, and it
\* is 0 when the text of the field is empty or not numeric.
C14_NumericColumnsHoldIntegers ==
    (fnInput.fn \in {"parseCSV", "parseDemographicsCSV"} /\ fnResult # <<>>) =>
        LET lines  == LinesOf(fnInput.arg)
            header == Fields(lines[1])
            kept   == DataLineIndices(lines)
            cols   == NumericColumnsOf(fnInput.fn)
        IN  \A k \in 1..Len(fnResult[1]), c \in 1..Len(cols) :
                (\E j \in 1..Len(header) : header[j] = cols[c]) =>
                    /\ Get(fnResult[1][k], cols[c]).type = "number"
                    /\ parseInt(FieldUnder(header, Fields(lines[kept[k]]), cols[c])) = <<>>
                         => Get(fnResult[1][k], cols[c]).val = 0

(***************************************************************************)
(* Claims about the trace extractor                                        *)
(***************************************************************************)
\* the traces of a payload, none when it has no data
TracesOf(plotlyData) == IF plotlyData.hasData THEN plotlyData.data ELSE <<>>

\* the positions of the traces with a non-empty name, an x and a y array, a
\* name that does not contain "Quartil", a type other than 'bar' and a mode
\* other than 'none'
SeriesPositions(data) ==
    {i \in 1..Len(data) :
        /\ Len(data[i].name) > 0
        /\ data[i].hasX /\ data[i].hasY
        /\ \A k \in 1..(Len(data[i].name) - 6) :
              SubSeq(data[i].name, k, k + 6) # <<"Q", "u", "a", "r", "t", "i", "l">>
        /\ data[i].type # "bar"
        /\ data[i].mode # "none"}

\* the trace mapping a call of either version returned
MappingOf(fn, result) == IF fn = "extractAllTraces" THEN result ELSE result.traces

\* mapping has exactly the names of the series of data as keys, and each key
\* maps to the x and y of a series of that name
IsMappingOfSeries(mapping, data) ==
    /\ KeySet(mapping) = {data[i].name : i \in SeriesPositions(data)}
    /\ \A key \in KeySet(mapping) :
          \E i \in SeriesPositions(data) :
              /\ data[i].name = key
              /\ MapGet(mapping, key) = [x |-> data[i].x, y |-> data[i].y]

\* C15: for every payload, the key set of the trace mapping extractAllTraces
\* returns (in both versions of the function) is exactly the set of names of
\* the traces with a non-empty name, an x and a y array, a name not containing
\* "Quartil", a type other than 'bar' and a mode other than 'none', and each
\* key maps to the x and y of that trace; a bar, a mode-'none' trace and two
\* line traces give exactly two series.
C15_KeysAreSeriesNames ==
    (fnInput.fn \in {"extractAllTraces", "extractAllTraces_v2"} /\ fnResult # <<>>) =>
        /\ IsMappingOfSeries(MappingOf(fnInput.fn, fnResult[1]), TracesOf(fnInput.arg))
        /\ fnInput.arg.data = FourTraces
             => Cardinality(KeySet(MappingOf(fnInput.fn, fnResult[1]))) = 2

\* the same statement for the first version of the function alone
C15_FirstVersionOnly ==
    (fnInput.fn = "extractAllTraces" /\ fnResult # <<>>) =>
        /\ IsMappingOfSeries(fnResult[1], TracesOf(fnInput.arg))
        /\ fnInput.arg.data = FourTraces => Cardinality(KeySet(fnResult[1])) = 2

(***************************************************************************)
(* Claims about init and fetchData                                         *)
(***************************************************************************)
\* the series named name of the payload source s answered with
HasSeries(s, name) ==
    \E i \in 1..Len(fetched[s][1].data) :
        IsLocationTrace(fetched[s][1].data[i]) /\ fetched[s][1].data[i].name = name

\* C17: when init finishes, the error banner is visible if and only if none
\* of the three sources yielded data; if at least one source succeeded, the
\* banner is hidden, the loading indicator is hidden and the chart is created
\* from the successful sources (one trace for every successful source that
\* has a series of the selected location, and no other trace).
C17_BannerIffNoData ==
    page.pc = "finished" =>
        /\ page.error = "visible" <=> SucceededWithTraces = {}
        /\ page.loading = "hidden"
        /\ SucceededWithTraces # {} =>
              /\ page.error = "hidden"
              /\ Len(page.chart) = 1
              /\ {t.source : t \in {page.chart[1][i] : i \in 1..Len(page.chart[1])}}
                   = {s \in SucceededWithTraces : HasSeries(s, selectedLocations[1])}
              /\ \A i \in 1..Len(page.chart[1]) :
                    LET t    == page.chart[1][i]
                        data == fetched[t.source][1].data
                    IN  /\ t.location = selectedLocations[1]
                        /\ \E j \in 1..Len(data) :
                              /\ data[j].name = t.location
                              /\ data[j].x = t.x /\ data[j].y = t.y

\* C17 witness: init finished with one source failed and two sources loaded;
\* the banner is hidden and the chart has a trace for each of the two
C17_Witness ==
    /\ page.pc = "finished"
    /\ fetchPc["influenza"] = "failed"
    /\ page.error = "hidden"
    /\ page.loading = "hidden"
    /\ Len(page.chart) = 1
    /\ Len(page.chart[1]) = 2

\* C17 second case: init finished without any source; the banner is visible
C17_BannerShown ==
    /\ page.pc = "finished"
    /\ SucceededWithTraces = {}
    /\ page.error = "visible"

C16_HungFetchStallsOnlyItself ==
    \A h \in Sources :
        ( /\ <>[](fetchPc[h] \in {"direct", "proxy"})
          /\ \A s \in Sources \ {h} : <>(fetchPc[s] \in {"done", OnFetchError}) )
        => <>(loadPc = "resolved" /\ page.pc = "finished")

(***************************************************************************)
(* Claims about lightenColor                                               *)
(***************************************************************************)
\* the greatest integer not above c + (255 - c) * amount, for an amount
\* between 0 and 1
FloorToward255(c, amount) ==
    CHOOSE v \in 0..255 :
        /\ v * amount[2] <= c * amount[2] + (255 - c) * amount[1]
        /\ (v + 1) * amount[2] > c * amount[2] + (255 - c) * amount[1]

\* the call lightenColor(color of r, g, b, amount) returned the colour whose
\* channels are c + (255 - c) * amount, rounded down
MovesChannelsToward255 ==
    \A r \in ChannelValues, g \in ChannelValues, b \in ChannelValues :
        ( /\ fnInput.fn = "lightenColor"
          /\ fnInput.arg \in {HexColor(r, g, b, HexChars), HexColor(r, g, b, UpperHexChars)}
          /\ fnResult # <<>> )
        => fnResult[1] = HexColor(FloorToward255(r, fnInput.amount),
                                  FloorToward255(g, fnInput.amount),
                                  FloorToward255(b, fnInput.amount), HexChars)

IsCallOnBlackByHalf ==
    /\ fnInput.fn = "lightenColor"
    /\ fnInput.arg = <<"#", "0", "0", "0", "0", "0", "0">>
    /\ fnInput.amount = <<1, 2>>
    /\ fnResult # <<>>

\* C20 (as stated): lightenColor(hex, amount) moves every channel c to
\* c + (255 - c) * amount reduced to an integer, such that
\* lightenColor("#000000", 0.5) returns "#808080".
C20_Black50Is808080 ==
    /\ MovesChannelsToward255
    /\ IsCallOnBlackByHalf => fnResult[1] = <<"#", "8", "0", "8", "0", "8", "0">>

\* C20 (amended): lightenColor(hex, amount) moves every channel c to
\* c + (255 - c) * amount rounded down, such that lightenColor("#000000", 0.5)
\* returns "#7f7f7f".
C20_Black50Is7f7f7f ==
    /\ MovesChannelsToward255
    /\ IsCallOnBlackByHalf => fnResult[1] = <<"#", "7", "f", "7", "f", "7", "f">>

\* C20 witness: lightenColor("#000000", 0.5) returned "#7f7f7f"
C20_Witness ==
    /\ IsCallOnBlackByHalf
    /\ fnResult[1] = <<"#", "7", "f", "7", "f", "7", "f">>

(***************************************************************************)
(* Claims about the frame of the aggregation functions                     *)
(***************************************************************************)
\* what the call recorded in call returns on the datasets raw and demo and
\* the week list kws
ResultOf(call, raw, demo, kws) ==
    CASE call.fn = "filterSariData" ->
            filterSariData(raw, call.bundesland, call.station)
      [] call.fn = "filterSariDataByStation" ->
            filterSariDataByStation(raw, call.bundesland, call.station)
      [] call.fn = "aggregateDemographicsData" ->
            aggregateDemographicsData(demo, call.bundesland, call.station,
                                      call.startDate, call.endDate)
      [] call.fn = "aggregateHeatmapData" ->
            aggregateHeatmapData(demo, kws, call.bundesland, call.station,
                                 call.diagnose, call.startIdx, call.endIdx)

LowerHex(c) == IF IsHexDigit(c) THEN HexChars[HexVal(c) + 1] ELSE c

\* the colour x written as '#' and six lower-case digits
LowerCaseColor(x) ==
    LET digits == RemoveFirstHash(x)
    IN  <<"#">> \o [i \in 1..Len(digits) |-> LowerHex(digits[i])]

\* s is '#' followed by six lower-case hexadecimal digits, i.e. three
\* channels of 0..255 each
IsColorOfThreeChannels(s) ==
    /\ Len(s) = 7
    /\ s[1] = "#"
    /\ \A i \in 2..7 : \E k \in 1..16 : HexChars[k] = s[i]

LightenReturned == fnInput.fn = "lightenColor" /\ fnResult # <<>>

\* lightenColor(x, 1) returns "#ffffff" and every amount of [0, 1] gives
\* channels within 0..255
WhiteAtOneAndChannelsInRange ==
    LightenReturned =>
        /\ IsColorOfThreeChannels(fnResult[1])
        /\ fnInput.amount = <<1, 1>> => fnResult[1] = <<"#", "f", "f", "f", "f", "f", "f">>

\* C21 (as stated): for every 6-hex-digit colour x, lightenColor(x, 0)
\* returns x unchanged and lightenColor(x, 1) returns "#ffffff"; for every
\* amount in [0, 1] each output channel lies in 0..255.
C21_AmountZeroReturnsArgument ==
    /\ WhiteAtOneAndChannelsInRange
    /\ (LightenReturned /\ fnInput.amount = <<0, 1>>) => fnResult[1] = fnInput.arg

\* C21 (amended): for every 6-hex-digit colour x, lightenColor(x, 0) returns
\* the colour x written as '#' and six lower-case digits (x itself only when x
\* is written that way) and lightenColor(x, 1) returns "#ffffff"; for every
\* amount in [0, 1] each output channel lies in 0..255.
C21_AmountZeroReturnsSameColor ==
    /\ WhiteAtOneAndChannelsInRange
    /\ (LightenReturned /\ fnInput.amount = <<0, 1>>)
           => fnResult[1] = LowerCaseColor(fnInput.arg)

\* C21 witness: lightenColor("#FF0174", 0) returned "#ff0174"
C21_Witness ==
    /\ LightenReturned
    /\ fnInput.arg = <<"#", "F", "F", "0", "1", "7", "4">>
    /\ fnInput.amount = <<0, 1>>
    /\ fnResult[1] = <<"#", "f", "f", "0", "1", "7", "4">>

(***************************************************************************)
(* Claims about the SARI chart                                             *)
(***************************************************************************)
\* the station whose rows a trace of the SARI chart shows
StationOfTrace(trace) ==
    IF trace.ward = "single" THEN sariUI.station ELSE <<trace.ward>>

\* the sum of a diagnosis field over the rows whose week is shown as dateString
WeekTotal(rows, diagnose, dateString) ==
    SumSeq([i \in 1..Len(rows) |->
              IF ISODateString(Get(rows[i], K_date).val) = dateString
              THEN NumericValue(Get(rows[i], DiagnoseKey(diagnose)))
              ELSE 0])

\* y[i] is what the trace's station admitted in the week x[i]
IsSeriesOfWeeks(trace) ==
    /\ Len(trace.x) = Len(trace.y)
    /\ \A i \in 1..Len(trace.y) :
          i <= Len(trace.x) =>
              trace.y[i] = Num(WeekTotal(PassingRows(sariUI.bundesland, StationOfTrace(trace)),
                                         trace.name, trace.x[i]))

\* C22: every trace that createSariChart hands to the chart has x and y of the
\* same length with y[i] being the value of the week x[i]; this holds in the
\* station='ALL' mode too, where normal-ward and intensive-ward rows are
\* aggregated separately and may cover different sets of weeks.
C22_TracesAreSeriesOfWeeks ==
    sariChart.state = "chart" =>
        \A k \in 1..Len(sariChart.traces) : IsSeriesOfWeeks(sariChart.traces[k])

\* the same for the traces of a chart whose station select is not 'ALL'
C22_SingleStationOnly ==
    (sariChart.state = "chart" /\ sariUI.station # ALL) =>
        \A k \in 1..Len(sariChart.traces) : IsSeriesOfWeeks(sariChart.traces[k])

(***************************************************************************)
(* Claims about the population of the heatmap buckets                      *)
(***************************************************************************)
\* the rows of a (week, age group) bucket that carry the population sample of
\* their (age group, gender, week) cell
CellSamples(rows, kw, ageGroup) ==
    {i \in 1..Len(rows) : /\ Get(rows[i], K_KW) = kw
                          /\ Get(rows[i], K_ALTERSGRUPPE) = ageGroup
                          /\ IsFirstSample(rows, i)}

\* C23: in aggregateHeatmapData the population of a (week, age group) bucket
\* is counted only once: however many filtered rows fall into the bucket (both
\* genders, several stations or regions, repeated lines), no (age group,
\* gender, week) cell adds its BEV_ZAHL to the bucket's pop / popCount more
\* than once.
C23_HeatmapPopulationOncePerCell ==
    sariCall.fn = "aggregateHeatmapData" =>
        \A i \in 1..Len(sariCall.result) :
           LET item    == sariCall.result[i]
               samples == CellSamples(CallHeatPassing, item.kw, item.ageGroup)
           IN  /\ item.popCount = Cardinality(samples)
               /\ item.pop = SampleSum(CallHeatPassing, samples)

(***************************************************************************)
(* Claims about the JSON data source                                       *)
(***************************************************************************)
\* C24: in the JSON data-source variant, every row that loadSariData keeps in
\* sariRawData has a resolvable date: a row of the payload without a date is
\* not kept, so no later call of filterSariData or createSariChart, on load or
\* on any filter change, fails on a row that has no date.
C24_KeptRowsHaveDates ==
    /\ \A i \in 1..Len(sariRawData) : Get(sariRawData[i], K_date).type = "date"
    /\ sariCall.fn = "createSariChart" => ~sariCall.threw

(***************************************************************************)
(* Claims about the buckets of the demographics aggregation                *)
(***************************************************************************)
\* C25: in aggregateDemographicsData, rows with different (age group, gender)
\* pairs never contribute to the same bucket: for every output item, count
\* equals the sum of the item's diagnosis field over exactly the filtered rows
\* whose ALTERSGRUPPE and GESCHLECHT equal the item's ageGroup and gender, for
\* all field values including ones that contain the '_' character.
C25_BucketsKeepPairsApart ==
    sariCall.fn = "aggregateDemographicsData" =>
        \A i \in 1..Len(sariCall.result) :
           LET item == sariCall.result[i]
           IN  RatEq(item.count, Rat(BucketTotal(CallDemoPassing, item.ageGroup, item.gender,
                                                 item.diagnose)))

(***************************************************************************)
(* Claims about the polling timer of the heatmap                           *)
(***************************************************************************)
\* the demographics loader has prepared the dataset and rendered its chart
DemographicsRendered ==
    /\ Len(sariDemographicsData) > 0
    /\ demoChart.state \in {"chart", "nodata"}
    /\ sariDemographicsDates = DemographicsDates(sariDemographicsData)

\* C26: the heatmap is initialised by the polling timer at most once per page
\* load, only in a state where sariDemographicsData is non-empty, and never
\* before the demographics loader has finished preparing that dataset and
\* rendering the demographics chart; after that one initialisation the timer
\* is cancelled and never fires initSariHeatmapUI again.
C26_HeatmapInitialisedOnce ==
    /\ heatTimer.inits <= 1
    /\ heatChart.state # "loading" <=> heatTimer.inits = 1
    /\ heatTimer.inits = 1 => (heatTimer.state = "cleared" /\ DemographicsRendered)
    /\ heatTimer.inits = 0 => heatTimer.state = "running"

\* C26 witness: the timer has initialised the heatmap, which shows a chart of
\* the loaded weeks, and the controls of both sections were used afterwards
C26_Witness ==
    /\ heatTimer = [state |-> "cleared", inits |-> 1]
    /\ heatChart.state = "chart"
    /\ sariHeatmapKWs = HeatmapKWs(sariDemographicsData)
    /\ Len(sariHeatmapKWs) = 2
    /\ heatUI.per100k
    /\ demoUI.per100k

\* C27: every dashboard section eventually leaves its loading state, showing
\* either its chart or its error message, once the fetch it depends on has
\* completed with success or with failure; in particular the age-group heatmap
\* section does so, and its polling timer stops, when the demographics load
\* fails or yields zero rows.
C27_SectionsLeaveLoading ==
    /\ <>(sariChart.state # "loading")
    /\ <>(demoChart.state # "loading")
    /\ (demoChart.state # "loading")
           ~> (heatChart.state # "loading" /\ heatTimer.state = "cleared")

\* the same for the SARI section and the demographics section, and for the
\* heatmap when the demographics load gave rows
C27_ExceptHeatmapWithoutRows ==
    /\ <>(sariChart.state # "loading")
    /\ <>(demoChart.state # "loading")
    /\ (demoChart.state # "loading" /\ Len(sariDemographicsData) > 0)
           ~> (heatChart.state # "loading" /\ heatTimer.state = "cleared")


(***************************************************************************)
(* C28: completion order of the three fetches                              *)
(***************************************************************************)
\* what loadAllData returns when the callbacks resume in the order in which
\* DATA_SOURCES declares them, for the payloads that were fetched
RECURSIVE ResultsInSourceOrder(_, _)
ResultsInSourceOrder(i, res) ==
    IF i > Len(SourceKeys) THEN res
    ELSE LET s == SourceKeys[i]
         IN  ResultsInSourceOrder(i + 1,
                 IF fetched[s] = <<>> THEN res
                 ELSE StoreResult(res, s, extractAllTraces(fetched[s][1])))

\* the locations of all fetched payloads
FetchedLocations ==
    UNION { KeySet(extractAllTraces(fetched[s][1])) : s \in {t \in Sources : fetched[t] # <<>>} }

\* C28: once loadAllData has returned, its result, the traces createChart
\* builds from it (in the order in which it enumerates the sources) and the
\* content of allLocations are those of the declaration order of the sources,
\* whatever the order in which the fetches completed
C28_OutcomeIndependentOfCompletionOrder ==
    loadPc = "resolved" =>
        /\ allData = ResultsInSourceOrder(1, <<>>)
        /\ page = InitResumes(ResultsInSourceOrder(1, <<>>))
        /\ {allLocations[i] : i \in 1..Len(allLocations)} = FetchedLocations

\* the part that holds: the sources of the result, the traces stored for each
\* of them and the content of allLocations do not depend on the order
C28_SameSourcesAndLocations ==
    loadPc = "resolved" =>
        /\ KeySet(allData) = KeySet(ResultsInSourceOrder(1, <<>>))
        /\ \A k \in KeySet(allData) :
              MapGet(allData, k) = MapGet(ResultsInSourceOrder(1, <<>>), k)
        /\ {allLocations[i] : i \in 1..Len(allLocations)} = FetchedLocations


(***************************************************************************)
(* C29: the two pairs of range sliders                                     *)
(***************************************************************************)
\* both sliders of a section stand within the weeks of the list, start first
SlidersOrdered(ui, weeks) ==
    /\ ui.max = Len(weeks) - 1
    /\ 0 <= ui.start
    /\ ui.start <= ui.end
    /\ ui.end <= ui.max

\* a slider of the section was moved: the other one stays where it is, and a
\* slider that landed on a value other than the other slider's did not cross it
OneSliderMoved(old, new) ==
    \/ new.start # old.start /\ new.end = old.end /\ new.start <= old.end
    \/ new.end # old.end /\ new.start = old.start /\ new.end >= old.start
    \/ new.start = old.start /\ new.end = old.end

\* C29: after an input event on a slider of the demographics section or of
\* the heatmap, the start index is at most the end index and both lie within
\* 0..maxIdx of the sorted week list; a move across the other slider ends on
\* the other slider's value
C29_SlidersStayOrdered ==
    [][/\ (DemoStartSlider \/ DemoEndSlider) =>
              /\ SlidersOrdered(demoUI', sariDemographicsDates')
              /\ OneSliderMoved(demoUI, demoUI')
       /\ (HeatStartSlider \/ HeatEndSlider) =>
              /\ SlidersOrdered(heatUI', sariHeatmapKWs')
              /\ OneSliderMoved(heatUI, heatUI')]_vars

\* in both sections the end slider was moved down from the last week onto the
\* start slider, where a move further down or a move of the start slider
\* further up is held back
C29_Witness ==
    /\ DemoListening /\ HeatListening
    /\ demoUI.start = demoUI.end /\ demoUI.end < demoUI.max
    /\ heatUI.start = heatUI.end /\ heatUI.end < heatUI.max


(***************************************************************************)
(* C30: the location selector                                              *)
(***************************************************************************)
SetOf(q) == {q[i] : i \in 1..Len(q)}

\* a handler of the location selector has just run
LocationHandlerRan ==
    \/ ToggleLocation
    \/ SelectAllClick
    \/ SelectNoneClick

\* C30: after a toggle of a location checkbox, a click on 'select all' or a
\* click on 'select none', selectedLocations is a subset of allLocations
\* together with 'Oesterreich' and the chart is the one createChart builds
\* from the new selection; 'select none' leaves exactly {'Oesterreich'} and
\* 'select all' leaves exactly allLocations
C30_SelectionWithinLocations ==
    [][/\ LocationHandlerRan =>
              /\ SetOf(page'.selectedLocations) \subseteq SetOf(allLocations') \cup {Austria}
              /\ page'.chart = <<createChart(allData', page'.selectedLocations)>>
              /\ \A i \in 1..Len(page'.checkboxes) :
                    page'.checkboxes[i].checked
                        <=> SetHas(page'.selectedLocations, page'.checkboxes[i].location)
       /\ SelectNoneClick => SetOf(page'.selectedLocations) = {Austria}
       /\ SelectAllClick => SetOf(page'.selectedLocations) = SetOf(allLocations')]_vars

\* Austria was unchecked and Wien checked: the chart shows the traces of Wien only
C30_Witness ==
    /\ LocationsListening
    /\ page.selectedLocations = <<Wien>>
    /\ Len(page.chart[1]) > 0
    /\ \A i \in 1..Len(page.chart[1]) : page.chart[1][i].location = Wien

====
